---- MODULE Spec2Model ----
(***************************************************************************)
(* Model of the Privacy Shield front end: the local PII detector, the      *)
(* reconciler of the backend's answer, the segmenter of RedactedText and   *)
(* the submission state machine of ShieldChat.                             *)
(*                                                                         *)
(* A JavaScript string is modelled as a sequence of one-character strings, *)
(* so that searching, slicing and pattern matching are computed and not    *)
(* assumed.  Offsets are 0-based as in the source: character k of the      *)
(* source string is element k+1 of the sequence.                           *)
(***************************************************************************)
EXTENDS Integers, Sequences, FiniteSets, TLC

(***************************************************************************)
(* Characters and character classes of the regular expressions.            *)
(***************************************************************************)
Digit == {"0", "1", "2", "3", "4", "5", "6", "7", "8", "9"}

Upper == {"A", "B", "C", "D", "E", "F", "G", "H", "I", "J", "K", "L", "M",
          "N", "O", "P", "Q", "R", "S", "T", "U", "V", "W", "X", "Y", "Z"}

Lower == {"a", "b", "c", "d", "e", "f", "g", "h", "i", "j", "k", "l", "m",
          "n", "o", "p", "q", "r", "s", "t", "u", "v", "w", "x", "y", "z"}

\* \w of a JavaScript regular expression
WordChar == Digit \cup Upper \cup Lower \cup {"_"}

\* \s of a JavaScript regular expression (the whitespace the model uses)
Space == {" ", "\t", "\n"}

(***************************************************************************)
(* String operations, as String.prototype computes them.                   *)
(***************************************************************************)
\* text.slice(from, to) for 0 <= from, with the clamping of slice
Slice(text, from, to) ==
    LET t == IF to > Len(text) THEN Len(text) ELSE to
    IN  IF from >= t THEN <<>> ELSE SubSeq(text, from + 1, t)

\* whether pat occurs in text at 0-based offset pos
OccursAt(text, pat, pos) ==
    /\ pos >= 0
    /\ pos + Len(pat) <= Len(text)
    /\ \A k \in 1..Len(pat) : text[pos + k] = pat[k]

\* the least element of a non-empty set of integers
Least(S) == CHOOSE x \in S : \A y \in S : x <= y

\* text.indexOf(pat, from): the least offset >= from where pat occurs, or -1
IndexOf(text, pat, from) ==
    LET at == {i \in from..(Len(text) - Len(pat)) : OccursAt(text, pat, i)}
    IN  IF at = {} THEN -1 ELSE Least(at)

\* text.includes(pat)
Includes(text, pat) == IndexOf(text, pat, 0) # -1

\* text.replace(pat, by) with a string pattern: the first occurrence only
Replace(text, pat, by) ==
    CHOOSE r \in {IF at[2] = -1 THEN at[1]
                  ELSE Slice(at[1], 0, at[2]) \o by \o Slice(at[1], at[2] + Len(pat), Len(at[1]))
                  : at \in {<<t, IndexOf(t, pat, 0)>> : t \in {text}}} : TRUE

\* text.trim() is non-empty
TrimNonEmpty(text) == \E k \in 1..Len(text) : text[k] \notin Space

(***************************************************************************)
(* A backtracking matcher for the regular expressions of the source.  A    *)
(* regular expression is a sequence of alternatives tried in order; an     *)
(* alternative is a sequence of items:                                     *)
(*   [k |-> "b"]                       the assertion \b                    *)
(*   [k |-> "end"]                     the assertion $                     *)
(*   [k |-> "c", cls, min, max]        a greedy repetition of a class      *)
(*                                     (max = -1: unbounded)               *)
(***************************************************************************)
B == [k |-> "b"]
End == [k |-> "end"]
Rep(cls, min, max) == [k |-> "c", cls |-> cls, min |-> min, max |-> max]
One(cls) == Rep(cls, 1, 1)
Opt(cls) == Rep(cls, 0, 1)

IsWordAt(text, pos) == pos >= 0 /\ pos < Len(text) /\ text[pos + 1] \in WordChar

IsBoundary(text, pos) == IsWordAt(text, pos - 1) # IsWordAt(text, pos)

\* the number of consecutive characters of cls from offset pos, at most max
RECURSIVE RunLen(_, _, _, _)
RunLen(text, pos, cls, max) ==
    IF max # 0 /\ pos < Len(text) /\ text[pos + 1] \in cls
    THEN 1 + RunLen(text, pos + 1, cls, IF max = -1 THEN -1 ELSE max - 1)
    ELSE 0

\* the end offset of the first successful match of items[i..] at pos, or -1
RECURSIVE MatchFrom(_, _, _, _)
RECURSIVE TryCount(_, _, _, _, _)
MatchFrom(items, i, text, pos) ==
    IF i > Len(items) THEN pos
    ELSE CASE items[i].k = "b" ->
                IF IsBoundary(text, pos) THEN MatchFrom(items, i + 1, text, pos) ELSE -1
           [] items[i].k = "end" ->
                IF pos = Len(text) THEN MatchFrom(items, i + 1, text, pos) ELSE -1
           [] OTHER ->
                TryCount(items, i, text, pos, RunLen(text, pos, items[i].cls, items[i].max))

\* greedy: the longest repetition first, then shorter ones
TryCount(items, i, text, pos, n) ==
    IF n < items[i].min THEN -1
    ELSE LET r == MatchFrom(items, i + 1, text, pos + n)
         IN  IF r # -1 THEN r ELSE TryCount(items, i, text, pos, n - 1)

\* the alternatives in order, at one start offset
RECURSIVE MatchAlts(_, _, _, _)
MatchAlts(alts, a, text, pos) ==
    IF a > Len(alts) THEN -1
    ELSE LET r == MatchFrom(alts[a], 1, text, pos)
         IN  IF r # -1 THEN r ELSE MatchAlts(alts, a + 1, text, pos)

\* regex.exec(text) with lastIndex = from: <<start, end>> of the leftmost
\* match at or after from, or <<-1, -1>>
Exec(alts, text, from) ==
    LET found == {<<q, MatchAlts(alts, 1, text, q)>> : q \in from..Len(text)}
        at == {m \in found : m[2] # -1}
    IN  IF at = {} THEN <<-1, -1>>
        ELSE CHOOSE m \in at : \A other \in at : m[1] <= other[1]

\* the loop `while ((match = regex.exec(text)) !== null)` of a /g expression:
\* every match, each search resuming at lastIndex = the end of the previous
\* match (no expression of the source matches the empty string)
RECURSIVE ExecAll(_, _, _)
ExecAll(alts, text, from) ==
    LET m == Exec(alts, text, from)
    IN  IF m[1] = -1 THEN <<>>
        ELSE <<m>> \o ExecAll(alts, text, m[2])

\* regex.test(text) for an expression anchored with ^
TestAnchored(alts, text) == MatchAlts(alts, 1, text, 0) # -1

(***************************************************************************)
(* String literals of the source.                                          *)
(***************************************************************************)
Str_CREDIT_CARD == <<"C", "R", "E", "D", "I", "T", "_", "C", "A", "R", "D">>
Str_SSN == <<"S", "S", "N">>
Str_EMAIL == <<"E", "M", "A", "I", "L">>
Str_PHONE == <<"P", "H", "O", "N", "E">>
Str_AWS_KEY == <<"A", "W", "S", "_", "K", "E", "Y">>
Str_API_KEY == <<"A", "P", "I", "_", "K", "E", "Y">>
Str_IP_ADDRESS == <<"I", "P", "_", "A", "D", "D", "R", "E", "S", "S">>
Str_IP == <<"I", "P">>
Str_PERSON == <<"P", "E", "R", "S", "O", "N">>
Str_EMAIL_ADDRESS == <<"E", "M", "A", "I", "L", "_", "A", "D", "D", "R", "E", "S", "S">>
Str_PHONE_NUMBER == <<"P", "H", "O", "N", "E", "_", "N", "U", "M", "B", "E", "R">>
Str_US_SSN == <<"U", "S", "_", "S", "S", "N">>
Str__ADDRESS == <<"_", "A", "D", "D", "R", "E", "S", "S">>
Str__NUMBER == <<"_", "N", "U", "M", "B", "E", "R">>
Str_US_ == <<"U", "S", "_">>
\* "[REDACTED_" ... "]"
Redacted(label) == <<"[", "R", "E", "D", "A", "C", "T", "E", "D", "_">> \o label \o <<"]">>

(***************************************************************************)
(* The pattern catalog and the local detector.                             *)
(***************************************************************************)
\* [-\s] without the dash
DashSpace_NoDash == Space

\* [-\s]
DashSpace == {"-"} \cup Space
\* [-.\s]
DashDotSpace == {"-", "."} \cup Space
\* [A-Za-z0-9]
AlNum == Digit \cup Upper \cup Lower

\* \(?\d{3}\)?[-.\s]?\d{3}[-.\s]?\d{4}\b : the PHONE expression after its
\* optional country prefix
PhoneRest ==
    <<Opt({"("}), Rep(Digit, 3, 3), Opt({")"}), Opt(DashDotSpace),
      Rep(Digit, 3, 3), Opt(DashDotSpace), Rep(Digit, 4, 4), B>>

PII_PATTERNS ==
    << [type |-> Str_CREDIT_CARD,
        regex |-> << <<B, Rep(Digit, 4, 4), Opt(DashSpace), Rep(Digit, 4, 4), Opt(DashSpace),
                       Rep(Digit, 4, 4), Opt(DashSpace), Rep(Digit, 4, 4), B>> >>,
        replacement |-> Redacted(<<"C", "C">>)],
       [type |-> Str_SSN,
        regex |-> << <<B, Rep(Digit, 3, 3), Opt({"-"}), Rep(Digit, 2, 2), Opt({"-"}),
                       Rep(Digit, 4, 4), B>> >>,
        replacement |-> Redacted(Str_SSN)],
       [type |-> Str_EMAIL,
        regex |-> << <<B, Rep(AlNum \cup {".", "_", "%", "+", "-"}, 1, -1), One({"@"}),
                       Rep(AlNum \cup {".", "-"}, 1, -1), One({"."}),
                       Rep(Upper \cup Lower \cup {"|"}, 2, -1), B>> >>,
        replacement |-> Redacted(Str_EMAIL)],
       [type |-> Str_PHONE,
        \* (\+?1[-.\s]?)? is greedy: with the prefix first, then without it
        regex |-> << <<B, Opt({"+"}), One({"1"}), Opt(DashDotSpace)>> \o PhoneRest,
                     <<B>> \o PhoneRest >>,
        replacement |-> Redacted(Str_PHONE)],
       [type |-> Str_AWS_KEY,
        regex |-> << <<B, One({"A"}), One({"K"}), One({"I"}), One({"A"}),
                       Rep(Digit \cup Upper, 16, 16), B>> >>,
        replacement |-> Redacted(Str_AWS_KEY)],
       [type |-> Str_API_KEY,
        regex |-> << <<B, One({"s"}), One({"k"}), One({"-"}), Rep(AlNum, 32, -1), B>> >>,
        replacement |-> Redacted(Str_API_KEY)],
       [type |-> Str_IP_ADDRESS,
        regex |-> << <<B, Rep(Digit, 1, 3), One({"."}), Rep(Digit, 1, 3), One({"."}),
                       Rep(Digit, 1, 3), One({"."}), Rep(Digit, 1, 3), B>> >>,
        replacement |-> Redacted(Str_IP)] >>

\* SortByStart with the sort forgotten
SortByStart_Unsorted(matches) == matches

\* Array.prototype.sort((a, b) => a.start - b.start): stable, by start only
RECURSIVE InsertByStart(_, _)
InsertByStart(sorted, m) ==
    IF sorted = <<>> THEN <<m>>
    ELSE IF sorted[Len(sorted)].start <= m.start THEN Append(sorted, m)
    ELSE Append(InsertByStart(SubSeq(sorted, 1, Len(sorted) - 1), m), sorted[Len(sorted)])

RECURSIVE SortByStart(_)
SortByStart(matches) ==
    IF matches = <<>> THEN <<>>
    ELSE CHOOSE r \in {InsertByStart(sorted, matches[Len(matches)]) :
                          sorted \in {SortByStart(SubSeq(matches, 1, Len(matches) - 1))}} : TRUE

\* PatternMatches with the exec loop left after its first match
PatternMatches_FirstOnly(pattern, text) ==
    LET m == Exec(pattern.regex, text, 0)
    IN  IF m[1] = -1 THEN <<>>
        ELSE <<[type |-> pattern.type, original |-> Slice(text, m[1], m[2]),
                replacement |-> pattern.replacement, start |-> m[1], end |-> m[2]]>>

\* the matches one pattern pushes, in the order exec finds them
PatternMatches(pattern, text) ==
    LET found == ExecAll(pattern.regex, text, 0)
    IN  [k \in 1..Len(found) |->
            [type |-> pattern.type,
             original |-> Slice(text, found[k][1], found[k][2]),
             replacement |-> pattern.replacement,
             start |-> found[k][1],
             end |-> found[k][2]]]

RECURSIVE DetectFrom(_, _)
DetectFrom(p, text) ==
    IF p > Len(PII_PATTERNS) THEN <<>>
    ELSE PatternMatches(PII_PATTERNS[p], text) \o DetectFrom(p + 1, text)

detectPII(text) == SortByStart(DetectFrom(1, text))

(***************************************************************************)
(* The reconciler: convertBackendResponseToMatches and its two helpers.    *)
(***************************************************************************)
\* normalizeEntityType with the three removals only
normalizeEntityType_RemovalsOnly(entityType) ==
    Replace(Replace(Replace(entityType, Str__ADDRESS, <<>>), Str__NUMBER, <<>>), Str_US_, <<>>)

normalizeEntityType(entityType) ==
    Replace(Replace(Replace(Replace(Replace(Replace(Replace(entityType,
        Str_EMAIL_ADDRESS, Str_EMAIL),
        Str_PHONE_NUMBER, Str_PHONE),
        Str_US_SSN, Str_SSN),
        Str_IP_ADDRESS, Str_IP),
        Str__ADDRESS, <<>>),
        Str__NUMBER, <<>>),
        Str_US_, <<>>)

\* /^\d{3}-?\d{2}-?\d{4}$/
ShapeSSN == << <<Rep(Digit, 3, 3), Opt({"-"}), Rep(Digit, 2, 2), Opt({"-"}), Rep(Digit, 4, 4), End>> >>
\* /^\d{4}[-\s]?\d{4}[-\s]?\d{4}[-\s]?\d{4}$/
ShapeCard == << <<Rep(Digit, 4, 4), Opt(DashSpace), Rep(Digit, 4, 4), Opt(DashSpace),
                  Rep(Digit, 4, 4), Opt(DashSpace), Rep(Digit, 4, 4), End>> >>
\* /^\+?[\d\s\-\(\)]{10,}$/
ShapePhone == << <<Opt({"+"}), Rep(Digit \cup Space \cup {"-", "(", ")"}, 10, -1), End>> >>
\* /^\d{1,3}\.\d{1,3}\.\d{1,3}\.\d{1,3}$/
ShapeIP == << <<Rep(Digit, 1, 3), One({"."}), Rep(Digit, 1, 3), One({"."}),
                Rep(Digit, 1, 3), One({"."}), Rep(Digit, 1, 3), End>> >>
\* /^(sk-|ghp_|AKIA)/
HasKeyPrefix(original) ==
    \/ OccursAt(original, <<"s", "k", "-">>, 0)
    \/ OccursAt(original, <<"g", "h", "p", "_">>, 0)
    \/ OccursAt(original, <<"A", "K", "I", "A">>, 0)

\* inferEntityType that tests the phone shape before the SSN and card shapes
inferEntityType_PhoneFirst(original) ==
    IF Includes(original, <<"@">>) THEN Str_EMAIL
    ELSE IF TestAnchored(ShapePhone, original) THEN Str_PHONE
    ELSE IF TestAnchored(ShapeSSN, original) THEN Str_SSN
    ELSE IF TestAnchored(ShapeCard, original) THEN Str_CREDIT_CARD
    ELSE IF HasKeyPrefix(original) THEN Str_API_KEY
    ELSE IF TestAnchored(ShapeIP, original) THEN Str_IP
    ELSE Str_PERSON

inferEntityType(original) ==
    IF Includes(original, <<"@">>) THEN Str_EMAIL
    ELSE IF TestAnchored(ShapeSSN, original) THEN Str_SSN
    ELSE IF TestAnchored(ShapeCard, original) THEN Str_CREDIT_CARD
    ELSE IF TestAnchored(ShapePhone, original) THEN Str_PHONE
    ELSE IF HasKeyPrefix(original) THEN Str_API_KEY
    ELSE IF TestAnchored(ShapeIP, original) THEN Str_IP
    ELSE Str_PERSON

\* /^<[A-Z_]+>$/
ShapeTag == << <<One({"<"}), Rep(Upper \cup {"_"}, 1, -1), One({">"}), End>> >>
\* /^[A-Z_]+ \d+$/
ShapeNumbered == << <<Rep(Upper \cup {"_"}, 1, -1), One({" "}), Rep(Digit, 1, -1), End>> >>
\* /<([A-Z_]+)>/g
tagPattern == << <<One({"<"}), Rep(Upper \cup {"_"}, 1, -1), One({">"})>> >>

\* replacement.split(" ")[0]
FirstWord(replacement) ==
    LET sp == IndexOf(replacement, <<" ">>, 0)
    IN  IF sp = -1 THEN replacement ELSE Slice(replacement, 0, sp)

\* ClassifyReplacement that looks at the original value only
ClassifyReplacement_AlwaysInfers(original, replacement) == inferEntityType(original)

\* the entity type of a map pair (lines 142-151)
ClassifyReplacement(original, replacement) ==
    IF TestAnchored(ShapeTag, replacement)
    THEN normalizeEntityType(Slice(replacement, 1, Len(replacement) - 1))
    ELSE IF TestAnchored(ShapeNumbered, replacement)
    THEN normalizeEntityType(FirstWord(replacement))
    ELSE inferEntityType(original)

\* the claimed-range test of Mode A: processedPositions.has(posKey)
IsProcessed(processedPositions, index, len) == <<index, index + len>> \in processedPositions

\* ScanPair that stops after the first occurrence it emits
ScanPair_FirstOnly(cleanText, original, replacement, searchIndex, matches, processedPositions) ==
    LET index == IndexOf(cleanText, replacement, searchIndex)
    IN  IF ~(searchIndex < Len(cleanText)) \/ index = -1
           \/ <<index, index + Len(replacement)>> \in processedPositions
        THEN [matches |-> matches, processedPositions |-> processedPositions]
        ELSE [matches |-> Append(matches,
                                 [type |-> ClassifyReplacement(original, replacement),
                                  original |-> original,
                                  replacement |-> replacement,
                                  start |-> index,
                                  end |-> index + Len(replacement)]),
              processedPositions |->
                  processedPositions \cup {<<index, index + Len(replacement)>>}]

\* the while loop of one map pair: [matches, processedPositions] after it,
\* starting at searchIndex with the matches and claimed ranges so far
RECURSIVE ScanPair(_, _, _, _, _, _)
ScanPair(cleanText, original, replacement, searchIndex, matches, processedPositions) ==
    IF ~(searchIndex < Len(cleanText))
    THEN [matches |-> matches, processedPositions |-> processedPositions]
    ELSE LET index == IndexOf(cleanText, replacement, searchIndex)
         IN  IF index = -1
             THEN [matches |-> matches, processedPositions |-> processedPositions]
             ELSE IF IsProcessed(processedPositions, index, Len(replacement))
             THEN ScanPair(cleanText, original, replacement, index + 1,
                           matches, processedPositions)
             ELSE ScanPair(cleanText, original, replacement, index + Len(replacement),
                           Append(matches,
                                  [type |-> ClassifyReplacement(original, replacement),
                                   original |-> original,
                                   replacement |-> replacement,
                                   start |-> index,
                                   end |-> index + Len(replacement)]),
                           processedPositions \cup {<<index, index + Len(replacement)>>})

\* the for loop over Object.entries(syntheticMap), from entry e on
RECURSIVE ScanEntries(_, _, _, _, _)
ScanEntries(cleanText, entries, e, matches, processedPositions) ==
    IF e > Len(entries) THEN matches
    ELSE LET r == ScanPair(cleanText, entries[e][1], entries[e][2], 0,
                           matches, processedPositions)
         IN  ScanEntries(cleanText, entries, e + 1, r.matches, r.processedPositions)

\* TagMatches that stops after the first tag
TagMatches_FirstOnly(cleanText) ==
    LET found == ExecAll(tagPattern, cleanText, 0)
    IN  [k \in 1..(IF Len(found) > 0 THEN 1 ELSE 0) |->
            LET rawEntityType == Slice(cleanText, found[k][1] + 1, found[k][2] - 1)
            IN  [type |-> normalizeEntityType(rawEntityType),
                 original |-> <<"[">> \o rawEntityType \o <<"]">>,
                 replacement |-> Slice(cleanText, found[k][1], found[k][2]),
                 start |-> found[k][1],
                 end |-> found[k][2]]]

\* Mode B: one match per tag of cleanText
TagMatches(cleanText) ==
    LET found == ExecAll(tagPattern, cleanText, 0)
    IN  [k \in 1..Len(found) |->
            LET rawEntityType == Slice(cleanText, found[k][1] + 1, found[k][2] - 1)
            IN  [type |-> normalizeEntityType(rawEntityType),
                 original |-> <<"[">> \o rawEntityType \o <<"]">>,
                 replacement |-> Slice(cleanText, found[k][1], found[k][2]),
                 start |-> found[k][1],
                 end |-> found[k][2]]]

\* synthetic_map?: Record<string, string> is modelled as
\* [present |-> whether the field is there, entries |-> what Object.entries
\* gives, a sequence of <<original, replacement>> pairs with distinct originals]
NoMap == [present |-> FALSE, entries |-> <<>>]
MapOf(entries) == [present |-> TRUE, entries |-> entries]

\* UseMap for any map that is present, empty or not
UseMap_PresentOnly(syntheticMap) == syntheticMap.present

\* `syntheticMap && Object.keys(syntheticMap).length > 0`
UseMap(syntheticMap) == syntheticMap.present /\ Len(syntheticMap.entries) > 0

\* .filter(...): drop a match whose (start, end) equals its predecessor's
DropAdjacentDuplicates(sorted) ==
    SelectSeq([k \in 1..Len(sorted) |-> [i |-> k, m |-> sorted[k]]],
              LAMBDA x : x.i = 1 \/ x.m.start # sorted[x.i - 1].start
                                 \/ x.m.end # sorted[x.i - 1].end)

uniqueMatches(matches) ==
    LET kept == DropAdjacentDuplicates(SortByStart(matches))
    IN  [k \in 1..Len(kept) |-> kept[k].m]

convertBackendResponseToMatches(originalText, cleanText, items, syntheticMap) ==
    uniqueMatches(IF UseMap(syntheticMap)
                  THEN ScanEntries(cleanText, syntheticMap.entries, 1, <<>>, {})
                  ELSE TagMatches(cleanText))

(***************************************************************************)
(* The segmenter of RedactedText.  A part is what one pushed element       *)
(* shows: a plain part shows text.slice(from, to), a redacted part shows   *)
(* the replacement of the match m it stands for.                           *)
(***************************************************************************)
PlainPart(text, from, to) ==
    [kind |-> "plain", text |-> Slice(text, from, to), from |-> from, to |-> to]

RedactedPart(m) ==
    [kind |-> "redacted", text |-> m.replacement, from |-> m.start, to |-> m.end]

\* NextLastIndex resuming at the start of the match instead of its end
NextLastIndex_AtStart(m) == m.start

\* lastIndex after the part of match m is pushed (line 240)
NextLastIndex(m) == m.end

\* matches.forEach(...) from match i on, with lastIndex and the parts so far
RECURSIVE PartsFrom(_, _, _, _, _)
PartsFrom(text, matches, i, lastIndex, parts) ==
    IF i > Len(matches)
    THEN IF lastIndex < Len(text)
         THEN Append(parts, PlainPart(text, lastIndex, Len(text)))
         ELSE parts
    ELSE PartsFrom(text, matches, i + 1, NextLastIndex(matches[i]),
                   (IF matches[i].start > lastIndex
                    THEN Append(parts, PlainPart(text, lastIndex, matches[i].start))
                    ELSE parts) \o <<RedactedPart(matches[i])>>)

\* the parts RedactedText renders; the placeholder of an empty text has none
RedactedText(text, matches) ==
    IF text = <<>> THEN <<>>
    ELSE IF Len(matches) = 0 THEN <<PlainPart(text, 0, Len(text))>>
    ELSE PartsFrom(text, matches, 1, 0, <<>>)

(***************************************************************************)
(* The transport boundary: what apiFetch throws for a failed call.         *)
(***************************************************************************)
Msg_RateLimit == <<"R", "a", "t", "e", " ", "l", "i", "m", "i", "t", " ", "e", "x", "c", "e", "e", "d", "e", "d", ".", " ", "P", "l", "e", "a", "s", "e", " ", "t", "r", "y", " ", "a", "g", "a", "i", "n", " ", "l", "a", "t", "e", "r", ".">>
Msg_ApiError == <<"A", "P", "I", " ", "e", "r", "r", "o", "r", " ", "(">>
Msg_FailedToFetch == <<"F", "a", "i", "l", "e", "d", " ", "t", "o", " ", "f", "e", "t", "c", "h">>
Msg_CannotReach == <<"C", "a", "n", "n", "o", "t", " ", "r", "e", "a", "c", "h", " ", "t", "h", "e", " ", "A", "P", "I", " ", "a", "t", " ">>
\* (the two backquotes of the source message are written as apostrophes)
Msg_Ensure == <<".", " ", "E", "n", "s", "u", "r", "e", " ", "t", "h", "e", " ", "b", "a", "c", "k", "e", "n", "d", " ", "i", "s", " ", "r", "u", "n", "n", "i", "n", "g", " ", "(", "e", ".", "g", ".", " ", "'", "u", "v", "i", "c", "o", "r", "n", " ", "a", "p", "p", ".", "m", "a", "i", "n", ":", "a", "p", "p", "'", ")", " ", "a", "n", "d", " ", "r", "e", "a", "c", "h", "a", "b", "l", "e", ".">>
\* the default of API_BASE
API_BASE == <<"h", "t", "t", "p", ":", "/", "/", "1", "2", "7", ".", "0", ".", "0", ".", "1", ":", "8", "0", "0", "0">>

\* the decimal digits of a natural number, as the template ${response.status} prints it
DigitChar(d) == <<"0", "1", "2", "3", "4", "5", "6", "7", "8", "9">>[d + 1]
RECURSIVE Decimal(_)
Decimal(n) == IF n < 10 THEN <<DigitChar(n)>> ELSE Append(Decimal(n \div 10), DigitChar(n % 10))

\* What one fetch attempt can end in.  kind "ok": a 2xx response; kind
\* "http": a response with !response.ok, its status and body text; kind
\* "network": fetch itself rejects with a TypeError.
NetworkFailure == [kind |-> "network", status |-> 0, errorText |-> <<>>]
HttpFailure(status, errorText) == [kind |-> "http", status |-> status, errorText |-> errorText]

\* the error apiFetch's try block throws for a failed attempt (lines 1112-1118)
ThrownError(outcome) ==
    IF outcome.kind = "network"
    THEN [isTypeError |-> TRUE, message |-> Msg_FailedToFetch]
    ELSE IF outcome.status = 429
    THEN [isTypeError |-> FALSE, message |-> Msg_RateLimit]
    ELSE [isTypeError |-> FALSE,
          message |-> Msg_ApiError \o Decimal(outcome.status) \o <<")", ":", " ">> \o outcome.errorText]

normalizeFetchError(error) ==
    IF \/ error.isTypeError
       \/ error.message = Msg_FailedToFetch
       \/ Includes(error.message, <<"N", "e", "t", "w", "o", "r", "k", "E", "r", "r", "o", "r">>)
       \/ Includes(error.message, <<"L", "o", "a", "d", " ", "f", "a", "i", "l", "e", "d">>)
    THEN Msg_CannotReach \o API_BASE \o Msg_Ensure
    ELSE error.message

\* the message of the Error that apiFetch throws with the default retry
\* setting (retries 0): the normalized error of its single attempt
apiFetchError(outcome) == normalizeFetchError(ThrownError(outcome))

\* isRateLimited of handleSanitize's audit catch block (lines 363-368)
isRateLimited(msg) ==
    \/ Includes(msg, <<"4", "2", "9">>)
    \/ Includes(msg, <<"r", "a", "t", "e">>)
    \/ Includes(msg, <<"l", "i", "m", "i", "t">>)
    \/ Includes(msg, <<"5", "0", "0">>)

(***************************************************************************)
(* Bounds of the model.                                                    *)
(***************************************************************************)
\* submissions one behaviour of ShieldChat starts
MaxSubmissions == 2
\* length of the texts the reconciler and the segmenter are run on
MaxTextLen == 4
\* pairs of a substitution map
MaxPairs == 2
\* matches handed to the segmenter
MaxSpans == 2
\* fragments a text of the local detector is built from
MaxFragments == 3
\* demo-mode timers (setTimeout 1000) pending at one time
MaxDemoTimers == 1
\* calls of the reconciler on one pair of arguments
MaxCalls == 2
\* retries of an apiFetch call
MaxRetries == 2
\* analytics polls one behaviour of WarRoom starts
MaxPolls == 3

(***************************************************************************)
(* ShieldChat: the state of the component and the calls in flight.  Every  *)
(* call in flight carries the values its closure captured; sub numbers the *)
(* submission (the run of handleSanitize) that issued it.                  *)
(***************************************************************************)
VARIABLES
    input,            \* useState("")
    isScanning,       \* useState(false)
    currentMatches,   \* useState<PIIMatch[]>([])
    sanitizedText,    \* useState("")
    history,          \* useState<HistoryEntry[]>([])
    apiError,         \* useState<string | null>(null)
    auditResult,      \* useState<AuditResult | null>(null)
    auditStatus,      \* useState<AuditStatus>("idle")
    aiResponse,       \* useState<string>("")
    isLoadingAI,      \* useState(false)
    aiError,          \* useState<string | null>(null)
    subCount,         \* the number of runs of handleSanitize started so far
    pendingSanitize,  \* sanitizeText calls awaiting their response
    pendingTimer,     \* fallback timers (setTimeout 1200) not fired yet
    pendingAudit,     \* auditText calls awaiting their response
    pendingChat,      \* chatProxy calls awaiting their response
    isDemoMode,       \* useDemoMode().isDemoMode
    pendingDemo,      \* demo-mode timers (setTimeout 1000) not fired yet, each
                      \* with the input its handleSanitize closure captured
    cleared           \* handleClear has run and no run of handleSanitize has
                      \* started since

chatVars == <<input, isScanning, currentMatches, sanitizedText, history, apiError,
              auditResult, auditStatus, aiResponse, isLoadingAI, aiError, subCount,
              pendingSanitize, pendingTimer, pendingAudit, pendingChat,
              isDemoMode, pendingDemo, cleared>>

\* the demo-mode state, which only the toggle and the demo timer write
demoVars == <<isDemoMode, pendingDemo>>

\* null, and a non-null string or object, of a `T | null` state
Null == [isNull |-> TRUE]
Message(msg) == [isNull |-> FALSE, message |-> msg]

\* SAMPLE_PROMPTS of the source, character by character
SAMPLE_PROMPTS ==
    << <<"M", "y", " ", "n", "a", "m", "e", " ", "i", "s", " ", "J", "o", "h", "n", " ",
       "D", "o", "e", ",", " ", "e", "m", "a", "i", "l", ":", " ", "j", "o", "h", "n",
       ".", "d", "o", "e", "@", "a", "c", "m", "e", ".", "c", "o", "m", " ", "a", "n",
       "d", " ", "m", "y", " ", "S", "S", "N", " ", "i", "s", " ", "1", "2", "3", "-",
       "4", "5", "-", "6", "7", "8", "9", ".", " ", "P", "l", "e", "a", "s", "e", " ",
       "p", "r", "o", "c", "e", "s", "s", " ", "m", "y", " ", "p", "a", "y", "m", "e",
       "n", "t", " ", "w", "i", "t", "h", " ", "c", "a", "r", "d", " ", "4", "5", "3",
       "2", "-", "1", "2", "3", "4", "-", "5", "6", "7", "8", "-", "9", "0", "1", "2",
       ".">>,
       <<"D", "e", "p", "l", "o", "y", " ", "t", "o", " ", "s", "e", "r", "v", "e", "r",
       " ", "1", "9", "2", ".", "1", "6", "8", ".", "1", ".", "1", "0", "0", " ", "u",
       "s", "i", "n", "g", " ", "A", "P", "I", " ", "k", "e", "y", " ", "s", "k", "-",
       "a", "b", "c", "d", "e", "f", "g", "h", "i", "j", "k", "l", "m", "n", "o", "p",
       "q", "r", "s", "t", "u", "v", "w", "x", "y", "z", "1", "2", "3", "4", "5", "6",
       " ", "a", "n", "d", " ", "A", "W", "S", " ", "k", "e", "y", " ", "A", "K", "I",
       "A", "I", "O", "S", "F", "O", "D", "N", "N", "7", "E", "X", "A", "M", "P", "L",
       "E", ".">>,
       <<"C", "o", "n", "t", "a", "c", "t", " ", "S", "a", "r", "a", "h", " ", "a", "t",
       " ", "(", "5", "5", "5", ")", " ", "8", "6", "7", "-", "5", "3", "0", "9", " ",
       "o", "r", " ", "s", "a", "r", "a", "h", ".", "c", "o", "n", "n", "o", "r", "@",
       "s", "k", "y", "n", "e", "t", ".", "i", "o", " ", "f", "o", "r", " ", "t", "h",
       "e", " ", "m", "e", "d", "i", "c", "a", "l", " ", "r", "e", "c", "o", "r", "d",
       "s", ".">> >>

\* what the user types into the textarea
TypedInputs ==
    { <<>>,
      <<"a", "@", "1", ".", "1", ".", "1", ".", "1", ".", "a", "a">> }

\* the test vectors the user clicks (indices of SAMPLE_PROMPTS)
ClickedSamples == {1}

\* SanitizeResponse values the backend answers with (items is not read by
\* any branch of convertBackendResponseToMatches that changes its result)
Responses ==
    { \* tags and no map
      [clean_text |-> <<"m", "a", "i", "l", " ", "<", "E", "M", "A", "I", "L", ">">>,
       items |-> <<>>, synthetic_map |-> NoMap],
      \* numbered tokens of synthetic mode
      [clean_text |-> <<"P", "E", "R", "S", "O", "N", " ", "1", "0", " ", "m", "e", "t", " ",
                        "P", "E", "R", "S", "O", "N", " ", "1">>,
       items |-> <<>>,
       synthetic_map |-> MapOf(<< <<<<"A", "l", "i", "c", "e">>,
                                    <<"P", "E", "R", "S", "O", "N", " ", "1">>>>,
                                  <<<<"J", "u", "d", "y">>,
                                    <<"P", "E", "R", "S", "O", "N", " ", "1", "0">>>> >>)] }

AuditResults ==
    { [isNull |-> FALSE, safety_score |-> 95, usability_score |-> 80, critique |-> "ok"] }

ChatReplies == {"reply"}

\* the ways the sanitize and the chat call fail in the model
TransportFailures == {NetworkFailure}

\* the ways the audit call fails in the model
FailureOutcomes ==
    { NetworkFailure,
      HttpFailure(429, <<>>),
      HttpFailure(500, <<"I", "n", "t", "e", "r", "n", "a", "l", " ", "S", "e", "r", "v", "e", "r",
                         " ", "E", "r", "r", "o", "r">>),
      HttpFailure(503, <<>>) }

\* the status the audit catch block sets for an error message (line 369)
FailedAuditStatus(msg) == IF isRateLimited(msg) THEN "rate_limited" ELSE "failed"

\* demoText of the demo-mode effect (line 428): character for character
\* the first of SAMPLE_PROMPTS
demoText == SAMPLE_PROMPTS[1]

\* every value the input state can take in the model
AllInputs == TypedInputs \cup {SAMPLE_PROMPTS[i] : i \in ClickedSamples} \cup {demoText}

\* The results the handlers compute, tabulated over the finite environment
\* of the model: each table entry is the call of the source's function.
FallbackMatches == [submitted \in AllInputs |-> detectPII(submitted)]

ResponseMatches ==
    [submitted \in AllInputs, response \in Responses |->
        convertBackendResponseToMatches(submitted, response.clean_text,
                                        response.items, response.synthetic_map)]

ErrorMessage == [outcome \in FailureOutcomes \cup TransportFailures |-> apiFetchError(outcome)]

AuditStatusAfter == [outcome \in FailureOutcomes |-> FailedAuditStatus(ErrorMessage[outcome])]

ChatInit ==
    /\ input = <<>>
    /\ isScanning = FALSE
    /\ currentMatches = <<>>
    /\ sanitizedText = <<>>
    /\ history = <<>>
    /\ apiError = Null
    /\ auditResult = Null
    /\ auditStatus = "idle"
    /\ aiResponse = ""
    /\ isLoadingAI = FALSE
    /\ aiError = Null
    /\ subCount = 0
    /\ pendingSanitize = {}
    /\ pendingTimer = {}
    /\ pendingAudit = {}
    /\ pendingChat = {}
    /\ isDemoMode = FALSE
    /\ pendingDemo = <<>>
    /\ cleared = FALSE

\* the textarea's onChange: handleInputChange(value), then the two clears
handleInputChange(value) ==
    /\ value # input
    /\ input' = value
    /\ sanitizedText' = <<>>
    /\ currentMatches' = <<>>
    /\ UNCHANGED <<isScanning, history, apiError, auditResult, auditStatus, aiResponse,
                   isLoadingAI, aiError, subCount, pendingSanitize, pendingTimer,
                   pendingAudit, pendingChat>>
    /\ UNCHANGED <<demoVars, cleared>>

\* handleSampleClick that leaves the matches of the pass before in place
handleSampleClick_KeepsMatches(sample) ==
    /\ input' = sample
    /\ sanitizedText' = <<>>
    /\ UNCHANGED <<isScanning, currentMatches, history, apiError, auditResult, auditStatus,
                   aiResponse, isLoadingAI, aiError, subCount, pendingSanitize, pendingTimer,
                   pendingAudit, pendingChat>>
    /\ UNCHANGED <<demoVars, cleared>>

handleSampleClick(sample) ==
    /\ input' = sample
    /\ sanitizedText' = <<>>
    /\ currentMatches' = <<>>
    /\ UNCHANGED <<isScanning, history, apiError, auditResult, auditStatus, aiResponse,
                   isLoadingAI, aiError, subCount, pendingSanitize, pendingTimer,
                   pendingAudit, pendingChat>>
    /\ UNCHANGED <<demoVars, cleared>>

handleClear ==
    /\ input' = <<>>
    /\ sanitizedText' = <<>>
    /\ currentMatches' = <<>>
    /\ auditResult' = Null
    /\ auditStatus' = "idle"
    /\ aiResponse' = ""
    /\ aiError' = Null
    /\ cleared' = TRUE
    /\ UNCHANGED <<isScanning, history, apiError, isLoadingAI, subCount, pendingSanitize,
                   pendingTimer, pendingAudit, pendingChat>>
    /\ UNCHANGED demoVars

\* the state handleSanitize leaves alone up to its first await
SanitizeFrame == <<input, currentMatches, sanitizedText, history, aiResponse, isLoadingAI,
                   aiError, pendingTimer, pendingAudit, pendingChat>>

\* handleSanitize of the render whose input state was `captured` (the
\* useCallback closure), up to its first await: it returns at once on a
\* blank input, and otherwise issues the sanitizeText call
StartSanitize(captured) ==
    IF ~TrimNonEmpty(captured)
    THEN UNCHANGED <<isScanning, apiError, auditResult, auditStatus, subCount,
                     pendingSanitize, cleared, SanitizeFrame>>
    ELSE /\ subCount < MaxSubmissions
         /\ cleared' = FALSE
         /\ isScanning' = TRUE
         /\ apiError' = Null
         /\ auditResult' = Null
         /\ auditStatus' = "idle"
         /\ subCount' = subCount + 1
         /\ pendingSanitize' = pendingSanitize \cup {[sub |-> subCount + 1, input |-> captured]}
         /\ UNCHANGED SanitizeFrame

\* the SANITIZE & FORWARD button accepting clicks whatever isScanning is
ButtonEnabled_IgnoresScanning == TrimNonEmpty(input)

\* disabled={!input.trim() || isScanning} of the SANITIZE & FORWARD button
ButtonEnabled == TrimNonEmpty(input) /\ ~isScanning

\* a click on the SANITIZE & FORWARD button: handleSanitize of the current
\* render
handleSanitize ==
    /\ ButtonEnabled
    /\ StartSanitize(input)
    /\ UNCHANGED demoVars

\* toggleDemoMode, and the demo-mode effect that runs when isDemoMode has
\* changed: with demo mode on and an empty input it fills the input with
\* demoText and sets a timer that calls the handleSanitize of this render
toggleDemoMode ==
    /\ isDemoMode' = ~isDemoMode
    /\ IF ~isDemoMode /\ input = <<>>
       THEN /\ Len(pendingDemo) < MaxDemoTimers
            /\ input' = demoText
            /\ pendingDemo' = Append(pendingDemo, [input |-> input])
       ELSE UNCHANGED <<input, pendingDemo>>
    /\ UNCHANGED <<isScanning, currentMatches, sanitizedText, history, apiError, auditResult,
                   auditStatus, aiResponse, isLoadingAI, aiError, subCount, pendingSanitize,
                   pendingTimer, pendingAudit, pendingChat, cleared>>

\* the callback of setTimeout(..., 1000) in the demo-mode effect
DemoTimeout(d) ==
    /\ d \in DOMAIN pendingDemo
    /\ pendingDemo' = [k \in 1..(Len(pendingDemo) - 1) |->
                          IF k < d THEN pendingDemo[k] ELSE pendingDemo[k + 1]]
    /\ StartSanitize(pendingDemo[d].input)
    /\ UNCHANGED isDemoMode

\* the first argument of the chatProxy call (line 344)
ForwardedText(submitted, response) == submitted

\* the argument of the auditText call (line 358)
AuditedText(submitted, response) == response.clean_text

\* SanitizeResolved showing the result only once the audit has answered:
\* isScanning stays true
SanitizeResolved_KeepsScanning(p, response) ==
    LET matches == ResponseMatches[p.input, response]
    IN  /\ p \in pendingSanitize
        /\ pendingSanitize' = pendingSanitize \ {p}
        /\ sanitizedText' = response.clean_text
        /\ currentMatches' = matches
        /\ history' = <<[id |-> p.sub, input |-> p.input, matches |-> matches]>> \o history
        /\ isLoadingAI' = TRUE
        /\ aiError' = Null
        /\ pendingChat' = pendingChat \cup {[sub |-> p.sub, text |-> p.input]}
        /\ auditStatus' = "running"
        /\ pendingAudit' = pendingAudit \cup {[sub |-> p.sub, text |-> response.clean_text]}
        /\ UNCHANGED <<input, isScanning, apiError, auditResult, aiResponse, subCount,
                       pendingTimer>>
        /\ UNCHANGED <<demoVars, cleared>>

\* sanitizeText resolves: handleSanitize from line 318 to the await of line 358
SanitizeResolved(p, response) ==
    LET matches == ResponseMatches[p.input, response]
    IN  /\ p \in pendingSanitize
        /\ pendingSanitize' = pendingSanitize \ {p}
        /\ sanitizedText' = response.clean_text
        /\ currentMatches' = matches
        /\ isScanning' = FALSE
        /\ history' = <<[id |-> p.sub, input |-> p.input, matches |-> matches]>> \o history
        /\ isLoadingAI' = TRUE
        /\ aiError' = Null
        /\ pendingChat' = pendingChat \cup
                            {[sub |-> p.sub, text |-> ForwardedText(p.input, response)]}
        /\ auditStatus' = "running"
        /\ pendingAudit' = pendingAudit \cup
                             {[sub |-> p.sub, text |-> AuditedText(p.input, response)]}
        /\ UNCHANGED <<input, apiError, auditResult, aiResponse, subCount, pendingTimer>>
        /\ UNCHANGED <<demoVars, cleared>>

\* sanitizeText rejects: the outer catch block, the fallback timer scheduled
SanitizeRejected(p, outcome) ==
    /\ p \in pendingSanitize
    /\ pendingSanitize' = pendingSanitize \ {p}
    /\ apiError' = Message(ErrorMessage[outcome])
    /\ auditStatus' = "idle"
    /\ pendingTimer' = pendingTimer \cup {p}
    /\ UNCHANGED <<input, isScanning, currentMatches, sanitizedText, history, auditResult,
                   aiResponse, isLoadingAI, aiError, subCount, pendingAudit, pendingChat>>
    /\ UNCHANGED <<demoVars, cleared>>

\* FallbackTimeout without setIsScanning(false)
FallbackTimeout_KeepsScanning(t) ==
    LET matches == FallbackMatches[t.input]
    IN  /\ t \in pendingTimer
        /\ pendingTimer' = pendingTimer \ {t}
        /\ currentMatches' = matches
        /\ sanitizedText' = t.input
        /\ history' = <<[id |-> t.sub, input |-> t.input, matches |-> matches]>> \o history
        /\ auditStatus' = "idle"
        /\ UNCHANGED <<input, isScanning, apiError, auditResult, aiResponse, isLoadingAI,
                       aiError, subCount, pendingSanitize, pendingAudit, pendingChat>>
        /\ UNCHANGED <<demoVars, cleared>>

\* the callback of setTimeout(..., 1200) in the catch block
FallbackTimeout(t) ==
    LET matches == FallbackMatches[t.input]
    IN  /\ t \in pendingTimer
        /\ pendingTimer' = pendingTimer \ {t}
        /\ currentMatches' = matches
        /\ sanitizedText' = t.input
        /\ isScanning' = FALSE
        /\ history' = <<[id |-> t.sub, input |-> t.input, matches |-> matches]>> \o history
        /\ auditStatus' = "idle"
        /\ UNCHANGED <<input, apiError, auditResult, aiResponse, isLoadingAI, aiError,
                       subCount, pendingSanitize, pendingAudit, pendingChat>>
        /\ UNCHANGED <<demoVars, cleared>>

\* auditText resolves (lines 359-360)
AuditResolved(a, audit) ==
    /\ a \in pendingAudit
    /\ pendingAudit' = pendingAudit \ {a}
    /\ auditResult' = audit
    /\ auditStatus' = "passed"
    /\ UNCHANGED <<input, isScanning, currentMatches, sanitizedText, history, apiError,
                   aiResponse, isLoadingAI, aiError, subCount, pendingSanitize,
                   pendingTimer, pendingChat>>
    /\ UNCHANGED <<demoVars, cleared>>

\* AuditRejected also clearing the sanitized output
AuditRejected_ClearsOutput(a, outcome) ==
    /\ a \in pendingAudit
    /\ pendingAudit' = pendingAudit \ {a}
    /\ auditStatus' = AuditStatusAfter[outcome]
    /\ auditResult' = Null
    /\ sanitizedText' = <<>>
    /\ currentMatches' = <<>>
    /\ UNCHANGED <<input, isScanning, history, apiError, aiResponse, isLoadingAI, aiError,
                   subCount, pendingSanitize, pendingTimer, pendingChat>>
    /\ UNCHANGED <<demoVars, cleared>>

\* auditText rejects (lines 362-371)
AuditRejected(a, outcome) ==
    /\ a \in pendingAudit
    /\ pendingAudit' = pendingAudit \ {a}
    /\ auditStatus' = AuditStatusAfter[outcome]
    /\ auditResult' = Null
    /\ UNCHANGED <<input, isScanning, currentMatches, sanitizedText, history, apiError,
                   aiResponse, isLoadingAI, aiError, subCount, pendingSanitize,
                   pendingTimer, pendingChat>>
    /\ UNCHANGED <<demoVars, cleared>>

\* chatProxy resolves (lines 345-348)
ChatResolved(c, reply) ==
    /\ c \in pendingChat
    /\ pendingChat' = pendingChat \ {c}
    /\ aiResponse' = reply
    /\ isLoadingAI' = FALSE
    /\ UNCHANGED <<input, isScanning, currentMatches, sanitizedText, history, apiError,
                   auditResult, auditStatus, aiError, subCount, pendingSanitize,
                   pendingTimer, pendingAudit>>
    /\ UNCHANGED <<demoVars, cleared>>

\* ChatRejected failing the audit as well
ChatRejected_FailsAudit(c, outcome) ==
    /\ c \in pendingChat
    /\ pendingChat' = pendingChat \ {c}
    /\ aiError' = Message(ErrorMessage[outcome])
    /\ isLoadingAI' = FALSE
    /\ auditStatus' = "failed"
    /\ auditResult' = Null
    /\ UNCHANGED <<input, isScanning, currentMatches, sanitizedText, history, apiError,
                   aiResponse, subCount, pendingSanitize, pendingTimer, pendingAudit>>
    /\ UNCHANGED <<demoVars, cleared>>

\* chatProxy rejects (lines 349-353)
ChatRejected(c, outcome) ==
    /\ c \in pendingChat
    /\ pendingChat' = pendingChat \ {c}
    /\ aiError' = Message(ErrorMessage[outcome])
    /\ isLoadingAI' = FALSE
    /\ UNCHANGED <<input, isScanning, currentMatches, sanitizedText, history, apiError,
                   auditResult, auditStatus, aiResponse, subCount, pendingSanitize,
                   pendingTimer, pendingAudit>>
    /\ UNCHANGED <<demoVars, cleared>>

ChatNext ==
    \/ \E value \in TypedInputs : handleInputChange(value)
    \/ \E i \in ClickedSamples : handleSampleClick(SAMPLE_PROMPTS[i])
    \/ handleClear
    \/ handleSanitize
    \/ toggleDemoMode
    \/ \E d \in DOMAIN pendingDemo : DemoTimeout(d)
    \/ \E p \in pendingSanitize, response \in Responses : SanitizeResolved(p, response)
    \/ \E p \in pendingSanitize, outcome \in TransportFailures : SanitizeRejected(p, outcome)
    \/ \E t \in pendingTimer : FallbackTimeout(t)
    \/ \E a \in pendingAudit, audit \in AuditResults : AuditResolved(a, audit)
    \/ \E a \in pendingAudit, outcome \in FailureOutcomes : AuditRejected(a, outcome)
    \/ \E c \in pendingChat, reply \in ChatReplies : ChatResolved(c, reply)
    \/ \E c \in pendingChat, outcome \in TransportFailures : ChatRejected(c, outcome)

(***************************************************************************)
(* The other components of the dashboard: one call of apiFetch, the        *)
(* Governance panel with the configuration of GovernanceProvider, and the  *)
(* analytics state of WarRoom.                                             *)
(***************************************************************************)
VARIABLES
    fetchPc,             \* "idle", "attempt" (awaiting fetch), "delay" (awaiting
                         \* the setTimeout), "returned" or "thrown"
    fetchRetry,          \* the retry argument of the call
    attempt,             \* the loop variable of apiFetch
    lastError,           \* lastError of apiFetch
    fetchLog,            \* the fetches completed and the delays started, in order
    fetchResult,         \* the message of the error thrown
    rules,               \* Governance: rule id -> enabled
    maskingStrategy,     \* Governance: useState<MaskingStrategy>("static")
    config,              \* GovernanceProvider: useState(DEFAULT_CONFIG)
    hasFetchedOnce,      \* WarRoom: useState(false)
    backendStats,        \* WarRoom: useState<StatsResponse | null>(null)
    backendEvents,       \* WarRoom: useState<AuditEvent[] | null>(null)
    backendDistribution, \* WarRoom: useState<Record<string, number> | null>(null)
    backendTimeline,     \* WarRoom: useState<TimelineBucket[] | null>(null)
    statsError,          \* WarRoom: useState<string | null>(null)
    polls,               \* WarRoom: the runs of fetchAll awaiting Promise.all
    pollCount            \* WarRoom: the runs of fetchAll started so far

fetchVars == <<fetchPc, fetchRetry, attempt, lastError, fetchLog, fetchResult>>

govVars == <<rules, maskingStrategy, config>>

warVars == <<hasFetchedOnce, backendStats, backendEvents, backendDistribution,
             backendTimeline, statsError, polls, pollCount>>

panelVars == <<fetchVars, govVars, warVars>>

\* retry = { retries: 0, baseDelayMs: 250 }, the default of apiFetch
DefaultRetry == [retries |-> 0, baseDelayMs |-> 250]

FetchInit ==
    /\ fetchPc = "idle"
    /\ fetchRetry = DefaultRetry
    /\ attempt = 0
    /\ lastError = [isNull |-> TRUE]
    /\ fetchLog = <<>>
    /\ fetchResult = <<>>

\* rulesEnabled: undefined, and maskingStrategy: undefined
Undefined == [isUndefined |-> TRUE]
NoStrategy == "undefined"

\* INITIAL_RULES: the id and the enabled flag of each rule
INITIAL_RULES ==
    << [id |-> "financial", enabled |-> TRUE],
       [id |-> "medical", enabled |-> TRUE],
       [id |-> "names", enabled |-> FALSE],
       [id |-> "emails", enabled |-> TRUE],
       [id |-> "phone", enabled |-> TRUE],
       [id |-> "credentials", enabled |-> TRUE],
       [id |-> "ip", enabled |-> TRUE],
       [id |-> "ssn", enabled |-> TRUE] >>

RULE_TO_ENTITIES ==
    [id \in {INITIAL_RULES[k].id : k \in DOMAIN INITIAL_RULES} |->
        CASE id = "financial" -> <<"CREDIT_CARD">>
          [] id = "medical" -> <<"PERSON">>
          [] id = "names" -> <<"PERSON">>
          [] id = "emails" -> <<"EMAIL_ADDRESS">>
          [] id = "phone" -> <<"PHONE_NUMBER">>
          [] id = "credentials" -> <<"API_KEY">>
          [] id = "ip" -> <<"IP_ADDRESS">>
          [] id = "ssn" -> <<"US_SSN">>]

MASKING_STRATEGIES == {"static", "synthetic", "hash"}

DEFAULT_CONFIG ==
    [enabledEntities |-> <<"CREDIT_CARD", "EMAIL_ADDRESS", "PHONE_NUMBER", "API_KEY",
                           "IP_ADDRESS", "US_SSN">>,
     rulesEnabled |-> Undefined,
     maskingStrategy |-> NoStrategy]

GovInit ==
    /\ rules = INITIAL_RULES
    /\ maskingStrategy = "static"
    /\ config = DEFAULT_CONFIG

WarInit ==
    /\ hasFetchedOnce = FALSE
    /\ backendStats = [isNull |-> TRUE]
    /\ backendEvents = [isNull |-> TRUE]
    /\ backendDistribution = [isNull |-> TRUE]
    /\ backendTimeline = [isNull |-> TRUE]
    /\ statsError = [isNull |-> TRUE]
    /\ polls = {}
    /\ pollCount = 0

PanelInit == FetchInit /\ GovInit /\ WarInit

(***************************************************************************)
(* One call of a pure function of the file, followed by the rendering of   *)
(* its result: the argument values, the returned matches, the parts.       *)
(***************************************************************************)
VARIABLES
    callPc,       \* "idle", "reconcile", "detect", "render" or "done"
    callText,     \* cleanText (reconciler), text (detector, RedactedText)
    callMap,      \* syntheticMap of the reconciler call
    callMatches,  \* the matches returned, the matches prop of RedactedText
    callParts,    \* the parts RedactedText rendered
    scanEntry,    \* the for loop of Mode A: the index of the pair being scanned
    scanIndex,    \* searchIndex of Mode A, tagPattern.lastIndex of Mode B
    scanClaimed,  \* processedPositions
    callReturned, \* what the earlier calls on these arguments returned
    callLabel     \* the label normalizeEntityType or inferEntityType returned

\* the loop state of a call of the reconciler that is run step by step
scanVars == <<scanEntry, scanIndex, scanClaimed>>

callVars == <<callPc, callText, callMap, callMatches, callParts, scanVars, callReturned,
              callLabel>>

vars == <<chatVars, callVars, panelVars>>

CallIdle ==
    /\ callPc = "idle"
    /\ callText = <<>>
    /\ callMap = NoMap
    /\ callMatches = <<>>
    /\ callParts = <<>>
    /\ scanEntry = 1
    /\ scanIndex = 0
    /\ scanClaimed = {}
    /\ callReturned = <<>>
    /\ callLabel = <<>>

\* all strings over an alphabet, up to a length
StringsUpTo(alphabet, n) == UNION {[1..k -> alphabet] : k \in 0..n}

\* substituted texts: every string of tag and letter characters
ReconcileTexts == StringsUpTo({"A", "<", ">"}, MaxTextLen)

\* replacement tokens: empty, nested, self-overlapping, overlapping, a tag
Tokens ==
    { <<>>, <<"A">>, <<"A", "A">>, <<"A", "<">>, <<"<", "A">>, <<"<", "A", ">">> }

\* the i-th original value of a generated map: distinct for distinct i
OriginalOf(i) == [j \in 1..i |-> "v"]

\* absent, empty, and every map of up to MaxPairs pairs over Tokens
ReconcileMaps ==
    {NoMap} \cup
    UNION { {MapOf([i \in 1..k |-> <<OriginalOf(i), f[i]>>]) : f \in [1..k -> Tokens]}
            : k \in 0..MaxPairs }

\* the worked examples of the reconciler: <<cleanText, syntheticMap>>
ReconcileExamples ==
    { \* "Contact <PERSON> now" with {"John Doe": "<PERSON>"}
      << <<"C", "o", "n", "t", "a", "c", "t", " ", "<", "P", "E", "R", "S", "O", "N", ">",
           " ", "n", "o", "w">>,
         MapOf(<< <<<<"J", "o", "h", "n", " ", "D", "o", "e">>,
                    <<"<", "P", "E", "R", "S", "O", "N", ">">>>> >>) >>,
      \* "<EMAIL> sent <PHONE_NUMBER>" with no map
      << <<"<", "E", "M", "A", "I", "L", ">", " ", "s", "e", "n", "t", " ", "<", "P", "H",
           "O", "N", "E", "_", "N", "U", "M", "B", "E", "R", ">">>,
         NoMap >>,
      \* "PERSON 10 met PERSON 1" with {"Alice": "PERSON 1", "Judy": "PERSON 10"}
      << <<"P", "E", "R", "S", "O", "N", " ", "1", "0", " ", "m", "e", "t", " ",
           "P", "E", "R", "S", "O", "N", " ", "1">>,
         MapOf(<< <<<<"A", "l", "i", "c", "e">>,
                    <<"P", "E", "R", "S", "O", "N", " ", "1">>>>,
                  <<<<"J", "u", "d", "y">>,
                    <<"P", "E", "R", "S", "O", "N", " ", "1", "0">>>> >>) >>,
      \* "X1 <US_SSN> PHONE_NUMBER 2 X1" with {"a@b.co": "X1",
      \* "123-45-6789": "<US_SSN>", "5558675309": "PHONE_NUMBER 2"}: a token
      \* of each shape, the free-form one substituted twice
      << <<"X", "1", " ", "<", "U", "S", "_", "S", "S", "N", ">", " ", "P", "H", "O", "N",
           "E", "_", "N", "U", "M", "B", "E", "R", " ", "2", " ", "X", "1">>,
         MapOf(<< <<<<"a", "@", "b", ".", "c", "o">>, <<"X", "1">>>>,
                  <<<<"1", "2", "3", "-", "4", "5", "-", "6", "7", "8", "9">>,
                    <<"<", "U", "S", "_", "S", "S", "N", ">">>>>,
                  <<<<"5", "5", "5", "8", "6", "7", "5", "3", "0", "9">>,
                    <<"P", "H", "O", "N", "E", "_", "N", "U", "M", "B", "E", "R", " ", "2">>>> >>) >> }

ReconcileInit ==
    /\ ChatInit
    /\ PanelInit
    /\ callPc = "reconcile"
    /\ \/ callText \in ReconcileTexts /\ callMap \in ReconcileMaps
       \/ \E ex \in ReconcileExamples : callText = ex[1] /\ callMap = ex[2]
    /\ callMatches = <<>>
    /\ callParts = <<>>
    /\ scanEntry = 1 /\ scanIndex = 0 /\ scanClaimed = {}
    /\ callReturned = <<>>
    /\ callLabel = <<>>

\* a call convertBackendResponseToMatches(originalText, cleanText, items, syntheticMap)
Reconcile ==
    /\ callPc = "reconcile"
    /\ callMatches' = convertBackendResponseToMatches(<<>>, callText, <<>>, callMap)
    /\ callPc' = "render"
    /\ UNCHANGED <<callText, callMap, callParts, chatVars, panelVars, callReturned, callLabel, scanVars>>

\* <RedactedText text={callText} matches={callMatches} />
Render ==
    /\ callPc = "render"
    /\ callParts' = RedactedText(callText, callMatches)
    /\ callPc' = "done"
    /\ UNCHANGED <<callText, callMap, callMatches, chatVars, panelVars, callReturned, callLabel, scanVars>>

\* the entry of a call of the reconciler that is run one loop iteration at
\* a time: its arguments are bound, `matches` is empty
ScanCall ==
    /\ callPc = "idle"
    /\ \/ callText' \in ReconcileTexts /\ callMap' \in ReconcileMaps
       \/ \E ex \in ReconcileExamples : callText' = ex[1] /\ callMap' = ex[2]
    /\ callPc' = "scan"
    /\ UNCHANGED <<callMatches, callParts, chatVars, panelVars, callReturned, callLabel, scanVars>>

\* ScanStep whose claimed-range branch retries at the same index
ScanStep_NoAdvance ==
    /\ callPc = "scan"
    /\ UseMap(callMap)
    /\ LET original == callMap.entries[scanEntry][1]
           replacement == callMap.entries[scanEntry][2]
           index == IF scanIndex < Len(callText)
                    THEN IndexOf(callText, replacement, scanIndex) ELSE -1
       IN  IF index = -1
           THEN /\ scanEntry' = scanEntry + 1
                /\ scanIndex' = 0
                /\ callPc' = IF scanEntry = Len(callMap.entries) THEN "sort" ELSE "scan"
                /\ UNCHANGED <<callMatches, scanClaimed>>
           ELSE IF IsProcessed(scanClaimed, index, Len(replacement))
           THEN /\ scanIndex' = index
                /\ UNCHANGED <<callPc, callMatches, scanEntry, scanClaimed>>
           ELSE /\ callMatches' = Append(callMatches,
                                         [type |-> ClassifyReplacement(original, replacement),
                                          original |-> original,
                                          replacement |-> replacement,
                                          start |-> index,
                                          end |-> index + Len(replacement)])
                /\ scanClaimed' = scanClaimed \cup {<<index, index + Len(replacement)>>}
                /\ scanIndex' = index + Len(replacement)
                /\ UNCHANGED <<callPc, scanEntry>>
    /\ UNCHANGED <<callText, callMap, callParts, chatVars, panelVars, callReturned, callLabel>>

\* Mode A: one evaluation of the while condition of the pair being scanned
\* and, when it holds, one iteration of the loop body (lines 132-162); when
\* the loop exits, the for loop moves to the next pair or ends
ScanStep ==
    /\ callPc = "scan"
    /\ UseMap(callMap)
    /\ LET original == callMap.entries[scanEntry][1]
           replacement == callMap.entries[scanEntry][2]
           index == IF scanIndex < Len(callText)
                    THEN IndexOf(callText, replacement, scanIndex) ELSE -1
       IN  IF index = -1
           THEN /\ scanEntry' = scanEntry + 1
                /\ scanIndex' = 0
                /\ callPc' = IF scanEntry = Len(callMap.entries) THEN "sort" ELSE "scan"
                /\ UNCHANGED <<callMatches, scanClaimed>>
           ELSE IF IsProcessed(scanClaimed, index, Len(replacement))
           THEN /\ scanIndex' = index + 1
                /\ UNCHANGED <<callPc, callMatches, scanEntry, scanClaimed>>
           ELSE /\ callMatches' = Append(callMatches,
                                         [type |-> ClassifyReplacement(original, replacement),
                                          original |-> original,
                                          replacement |-> replacement,
                                          start |-> index,
                                          end |-> index + Len(replacement)])
                /\ scanClaimed' = scanClaimed \cup {<<index, index + Len(replacement)>>}
                /\ scanIndex' = index + Len(replacement)
                /\ UNCHANGED <<callPc, scanEntry>>
    /\ UNCHANGED <<callText, callMap, callParts, chatVars, panelVars, callReturned, callLabel>>

\* Mode B: one tagPattern.exec(cleanText) and, when it matched, the loop
\* body (lines 169-180)
TagStep ==
    /\ callPc = "scan"
    /\ ~UseMap(callMap)
    /\ LET m == Exec(tagPattern, callText, scanIndex)
           rawEntityType == Slice(callText, m[1] + 1, m[2] - 1)
       IN  IF m[1] = -1
           THEN /\ callPc' = "sort"
                /\ scanIndex' = 0
                /\ UNCHANGED callMatches
           ELSE /\ callMatches' = Append(callMatches,
                                         [type |-> normalizeEntityType(rawEntityType),
                                          original |-> <<"[">> \o rawEntityType \o <<"]">>,
                                          replacement |-> Slice(callText, m[1], m[2]),
                                          start |-> m[1],
                                          end |-> m[2]])
                /\ scanIndex' = m[2]
                /\ UNCHANGED callPc
    /\ UNCHANGED <<callText, callMap, callParts, chatVars, panelVars, callReturned, callLabel, scanEntry, scanClaimed>>

\* the sort and the filter (lines 183-191), and the return
SortStep ==
    /\ callPc = "sort"
    /\ callMatches' = uniqueMatches(callMatches)
    /\ callPc' = "render"
    /\ UNCHANGED <<callText, callMap, callParts, chatVars, panelVars, callReturned, callLabel, scanVars>>

\* ScanAgain with the claimed ranges of the call before left in place
ScanAgain_KeepsClaimed ==
    /\ callPc = "done"
    /\ Len(callReturned) < MaxCalls - 1
    /\ callReturned' = Append(callReturned, callMatches)
    /\ callMatches' = <<>>
    /\ scanEntry' = 1
    /\ scanIndex' = 0
    /\ callPc' = "scan"
    /\ UNCHANGED <<callText, callMap, callParts, chatVars, panelVars, scanClaimed, callLabel>>

\* one more call on the arguments of the call that returned: matches (line
\* 103), processedPositions (line 127), searchIndex (line 130) and
\* tagPattern (line 166) are created by the call
ScanAgain ==
    /\ callPc = "done"
    /\ Len(callReturned) < MaxCalls - 1
    /\ callReturned' = Append(callReturned, callMatches)
    /\ callMatches' = <<>>
    /\ scanEntry' = 1
    /\ scanIndex' = 0
    /\ scanClaimed' = {}
    /\ callPc' = "scan"
    /\ UNCHANGED <<callText, callMap, callParts, chatVars, panelVars, callLabel>>

\* pieces the texts of the local detector are built from
Fragments ==
    { <<"a", "@">>,
      <<"1", ".", "1", ".", "1", ".", "1">>,
      <<".", "a", "a">>,
      <<" ">>,
      <<"1", "2", "3", "-", "4", "5", "-", "6", "7", "8", "9">>,
      <<"5", "5", "5", "8", "6", "7", "5", "3", "0", "9">>,
      <<"4", "5", "3", "2", "-", "1", "2", "3", "4", "-", "5", "6", "7", "8", "-",
        "9", "0", "1", "2">>,
      <<"c", "a", "r", "d">> }

RECURSIVE Concat(_)
Concat(pieces) == IF pieces = <<>> THEN <<>> ELSE Head(pieces) \o Concat(Tail(pieces))

DetectTexts == {Concat(f) : f \in UNION {[1..k -> Fragments] : k \in 0..MaxFragments}}

DetectInit ==
    /\ ChatInit
    /\ PanelInit
    /\ callPc = "detect"
    /\ callText \in DetectTexts
    /\ callMap = NoMap
    /\ callMatches = <<>>
    /\ callParts = <<>>
    /\ scanEntry = 1 /\ scanIndex = 0 /\ scanClaimed = {}
    /\ callReturned = <<>>
    /\ callLabel = <<>>

\* a call detectPII(text)
Detect ==
    /\ callPc = "detect"
    /\ callMatches' = detectPII(callText)
    /\ callPc' = "render"
    /\ UNCHANGED <<callText, callMap, callParts, chatVars, panelVars, callReturned, callLabel, scanVars>>

\* pieces the labels handed to normalizeEntityType are built from
LabelFragments ==
    { Str_US_, Str_SSN, Str_IP, Str__ADDRESS, Str__NUMBER, Str_EMAIL, Str_PHONE,
      <<"U", "N", "K", "N", "O", "W", "N", "_", "T", "A", "G">> }

LabelTexts == {Concat(f) : f \in UNION {[1..k -> LabelFragments] : k \in 0..MaxFragments}}

\* original values handed to inferEntityType: the texts of the detector and
\* the worked values
ValueExamples ==
    { <<"1", "9", "2", ".", "1", "6", "8", ".", "1", ".", "1">>,
      <<"j", "a", "n", "e", "@", "x", ".", "c", "o", "m">>,
      <<"J", "a", "n", "e", " ", "S", "m", "i", "t", "h">>,
      <<"s", "k", "-", "1">>,
      <<"s", "k", "-", "@">>,
      <<"+", "1", " ", "(", "5", "5", "5", ")", " ", "8", "6", "7", "-", "5", "3", "0", "9">>,
      <<"1", "2", "3", "4", "5", "6", "7", "8", "9">> }

ValueTexts == DetectTexts \cup ValueExamples

ClassifyInit ==
    /\ ChatInit
    /\ PanelInit
    /\ callPc = "classify"
    /\ callText \in LabelTexts \cup ValueTexts
    /\ callMap = NoMap
    /\ callMatches = <<>>
    /\ callParts = <<>>
    /\ scanEntry = 1 /\ scanIndex = 0 /\ scanClaimed = {}
    /\ callReturned = <<>>
    /\ callLabel = <<>>

\* a call normalizeEntityType(callText)
Normalize ==
    /\ callPc = "classify"
    /\ callLabel' = normalizeEntityType(callText)
    /\ callPc' = "normalized"
    /\ UNCHANGED <<callText, callMap, callMatches, callParts, chatVars, panelVars, callReturned, scanVars>>

\* a call inferEntityType(callText)
Infer ==
    /\ callPc = "classify"
    /\ callLabel' = inferEntityType(callText)
    /\ callPc' = "inferred"
    /\ UNCHANGED <<callText, callMap, callMatches, callParts, chatVars, panelVars, callReturned, scanVars>>

\* texts of distinct characters, one of each length
Letters == <<"a", "b", "c", "d", "e", "f", "g", "h", "i", "j", "k", "l", "m">>
RenderTexts == {SubSeq(Letters, 1, n) : n \in 0..MaxTextLen}

\* any match over a text, in or out of its bounds
RenderSpans(text) ==
    { [type |-> Str_PERSON, original |-> <<"v">>, replacement |-> <<"R">>,
       start |-> s, end |-> e] : s \in 0..(Len(text) + 1), e \in 0..(Len(text) + 1) }

RenderInit ==
    /\ ChatInit
    /\ PanelInit
    /\ callPc = "render"
    /\ callText \in RenderTexts
    /\ callMap = NoMap
    /\ callMatches \in UNION {[1..k -> RenderSpans(callText)] : k \in 0..MaxSpans}
    /\ callParts = <<>>
    /\ scanEntry = 1 /\ scanIndex = 0 /\ scanClaimed = {}
    /\ callReturned = <<>>
    /\ callLabel = <<>>

(***************************************************************************)
(* apiFetch, one await at a time.                                          *)
(***************************************************************************)
\* the retry arguments of the callers: sanitizeText, auditText, chatProxy
\* and healthCheck pass none, getStats, getEvents, getPiiDistribution and
\* getTimeline pass { retries: 1, baseDelayMs: 250 }
CallerRetry ==
    [caller \in {"sanitizeText", "auditText", "chatProxy", "healthCheck", "getStats",
                 "getEvents", "getPiiDistribution", "getTimeline"} |->
        IF caller \in {"sanitizeText", "auditText", "chatProxy", "healthCheck"}
        THEN DefaultRetry
        ELSE [retries |-> 1, baseDelayMs |-> 250]]

\* the retry arguments apiFetch is run with: those of its callers, and
\* every other setting up to the bound
RetrySettings ==
    {CallerRetry[c] : c \in DOMAIN CallerRetry}
    \cup [retries : 0..MaxRetries, baseDelayMs : {100, 250}]

\* what a fetch attempt ends in
AttemptFailures ==
    { NetworkFailure, HttpFailure(429, <<>>), HttpFailure(503, <<"d", "o", "w", "n">>) }

\* RetryDelay without the doubling
RetryDelay_Constant(retry, n) == retry.baseDelayMs

\* retry.baseDelayMs * Math.pow(2, attempt)
RetryDelay(retry, n) == retry.baseDelayMs * 2^n

\* the entry of fetchLog for a fetch that ended in outcome
FetchEntry(n, outcome) == [kind |-> "fetch", attempt |-> n, outcome |-> outcome]

\* the for statement entered with attempt = n: the next fetch is awaited
\* while n <= retry.retries, and the loop is left for the throw otherwise
LoopFrom(n) ==
    /\ attempt' = n
    /\ IF n <= fetchRetry'.retries
       THEN fetchPc' = "attempt" /\ fetchResult' = <<>>
       ELSE /\ fetchPc' = "thrown"
            /\ fetchResult' = IF lastError'.isNull
                               THEN <<"A", "P", "I", " ", "r", "e", "q", "u", "e", "s", "t", " ",
                                      "f", "a", "i", "l", "e", "d">>
                               ELSE normalizeFetchError(lastError')

\* a call apiFetch(endpoint, options, retry)
FetchCall(retry) ==
    /\ fetchPc = "idle"
    /\ fetchRetry' = retry
    /\ lastError' = [isNull |-> TRUE]
    /\ fetchLog' = <<>>
    /\ LoopFrom(0)
    /\ UNCHANGED <<chatVars, callVars, govVars, warVars>>

\* the fetch answers with response.ok: the call returns response.json()
AttemptSucceeds ==
    /\ fetchPc = "attempt"
    /\ fetchLog' = Append(fetchLog, FetchEntry(attempt, [kind |-> "ok", status |-> 200,
                                                         errorText |-> <<>>]))
    /\ fetchPc' = "returned"
    /\ UNCHANGED <<fetchRetry, attempt, lastError, fetchResult>>
    /\ UNCHANGED <<chatVars, callVars, govVars, warVars>>

\* the fetch rejects or answers with !response.ok: the catch block
AttemptFails(outcome) ==
    /\ fetchPc = "attempt"
    /\ lastError' = [isNull |-> FALSE] @@ ThrownError(outcome)
    /\ IF attempt >= fetchRetry.retries
       THEN /\ fetchLog' = Append(fetchLog, FetchEntry(attempt, outcome))
            /\ fetchPc' = "thrown"
            /\ fetchResult' = normalizeFetchError(lastError')
       ELSE /\ fetchLog' = fetchLog \o
                             << FetchEntry(attempt, outcome),
                                [kind |-> "delay", attempt |-> attempt,
                                 ms |-> RetryDelay(fetchRetry, attempt)] >>
            /\ fetchPc' = "delay"
            /\ UNCHANGED fetchResult
    /\ UNCHANGED <<fetchRetry, attempt>>
    /\ UNCHANGED <<chatVars, callVars, govVars, warVars>>

\* the timer of the delay fires: attempt++ and the loop condition
DelayElapsed ==
    /\ fetchPc = "delay"
    /\ UNCHANGED <<fetchRetry, lastError, fetchLog>>
    /\ LoopFrom(attempt + 1)
    /\ UNCHANGED <<chatVars, callVars, govVars, warVars>>

FetchNext ==
    \/ \E retry \in RetrySettings : FetchCall(retry)
    \/ AttemptSucceeds
    \/ \E outcome \in AttemptFailures : AttemptFails(outcome)
    \/ DelayElapsed

(***************************************************************************)
(* Governance and the configuration it writes to GovernanceProvider.       *)
(***************************************************************************)
\* ents.forEach((e) => set.add(e)) on the insertion-ordered set acc
RECURSIVE AddEach(_, _)
AddEach(acc, ents) ==
    IF ents = <<>> THEN acc
    ELSE AddEach(IF \E k \in DOMAIN acc : acc[k] = Head(ents) THEN acc
                 ELSE Append(acc, Head(ents)),
                 Tail(ents))

\* the for loop of deriveEnabledEntities from rule k on
RECURSIVE DeriveFrom(_, _, _)
DeriveFrom(nextRules, k, acc) ==
    IF k > Len(nextRules) THEN acc
    ELSE DeriveFrom(nextRules, k + 1,
                    IF nextRules[k].enabled /\ nextRules[k].id \in DOMAIN RULE_TO_ENTITIES
                    THEN AddEach(acc, RULE_TO_ENTITIES[nextRules[k].id])
                    ELSE acc)

deriveEnabledEntities(nextRules) == DeriveFrom(nextRules, 1, <<>>)

\* the rulesEnabled record the handlers build from a rule list
RulesEnabledOf(rs) ==
    [id \in {rs[k].id : k \in DOMAIN rs} |->
        (CHOOSE k \in DOMAIN rs : rs[k].id = id /\ \A j \in DOMAIN rs : rs[j].id = id => j <= k
        ) \in {k \in DOMAIN rs : rs[k].enabled}]

\* the effect on [config]: the rule toggles hydrated from config.rulesEnabled
HydratedRules(rs, cfg) ==
    IF DOMAIN cfg.rulesEnabled = DOMAIN Undefined THEN rs
    ELSE [k \in DOMAIN rs |->
             IF rs[k].id \in DOMAIN cfg.rulesEnabled
             THEN [rs[k] EXCEPT !.enabled = cfg.rulesEnabled[rs[k].id]]
             ELSE rs[k]]

\* the effect on [config]: the strategy hydrated from config.maskingStrategy
HydratedStrategy(strategy, cfg) ==
    IF cfg.maskingStrategy = NoStrategy THEN strategy ELSE cfg.maskingStrategy

\* setConfig(next) and the effect of Governance that runs on the new config
SetConfig(nextRules, nextStrategy, next) ==
    /\ config' = next
    /\ rules' = HydratedRules(nextRules, next)
    /\ maskingStrategy' = HydratedStrategy(nextStrategy, next)
    /\ UNCHANGED <<chatVars, callVars, fetchVars, warVars>>

toggleRule(id) ==
    LET next == [k \in DOMAIN rules |->
                    IF rules[k].id = id THEN [rules[k] EXCEPT !.enabled = ~rules[k].enabled]
                    ELSE rules[k]]
    IN  SetConfig(next, maskingStrategy,
                  [enabledEntities |-> deriveEnabledEntities(next),
                   rulesEnabled |-> RulesEnabledOf(next),
                   maskingStrategy |-> maskingStrategy])

\* onClick of a masking-strategy card
selectStrategy(strategy) ==
    SetConfig(rules, strategy,
              [enabledEntities |-> deriveEnabledEntities(rules),
               rulesEnabled |-> RulesEnabledOf(rules),
               maskingStrategy |-> strategy])

handleSave ==
    SetConfig(rules, maskingStrategy,
              [enabledEntities |-> deriveEnabledEntities(rules),
               rulesEnabled |-> RulesEnabledOf(rules),
               maskingStrategy |-> maskingStrategy])

handleReset ==
    SetConfig(INITIAL_RULES, "static",
              [enabledEntities |-> deriveEnabledEntities(INITIAL_RULES),
               rulesEnabled |-> RulesEnabledOf(INITIAL_RULES),
               maskingStrategy |-> "static"])

GovNext ==
    \/ \E k \in DOMAIN INITIAL_RULES : toggleRule(INITIAL_RULES[k].id)
    \/ \E strategy \in MASKING_STRATEGIES : selectStrategy(strategy)
    \/ handleSave
    \/ handleReset

(***************************************************************************)
(* WarRoom: the analytics polls.  A run of fetchAll awaits Promise.all of  *)
(* getStats, getEvents, getPiiDistribution and getTimeline (calls 1..4).   *)
(***************************************************************************)
AnalyticsCalls == 1..4

\* the value a state holds after poll `id` has set it
Fetched(id) == [isNull |-> FALSE, poll |-> id]

Msg_AnalyticsUnavailable == "Backend analytics unavailable - showing simulated data"

\* fetchAll(): on mount and on every tick of setInterval(fetchAll, 30000)
fetchAll ==
    /\ pollCount < MaxPolls
    /\ pollCount' = pollCount + 1
    /\ polls' = polls \cup {[id |-> pollCount + 1, pending |-> AnalyticsCalls]}
    /\ UNCHANGED <<hasFetchedOnce, backendStats, backendEvents, backendDistribution,
                   backendTimeline, statsError>>
    /\ UNCHANGED <<chatVars, callVars, fetchVars, govVars>>

\* PollRejected that clears the data of the polls before
PollRejected_ClearsData(p, k) ==
    /\ p \in polls
    /\ k \in p.pending
    /\ polls' = polls \ {p}
    /\ statsError' = [isNull |-> FALSE, message |-> Msg_AnalyticsUnavailable]
    /\ hasFetchedOnce' = TRUE
    /\ backendStats' = [isNull |-> TRUE]
    /\ backendEvents' = [isNull |-> TRUE]
    /\ backendDistribution' = [isNull |-> TRUE]
    /\ backendTimeline' = [isNull |-> TRUE]
    /\ UNCHANGED pollCount
    /\ UNCHANGED <<chatVars, callVars, fetchVars, govVars>>

\* call k of poll p resolves; when it is the last one pending, Promise.all
\* resolves and the try block runs to its end
PollCallResolved(p, k) ==
    /\ p \in polls
    /\ k \in p.pending
    /\ IF p.pending = {k}
       THEN /\ polls' = polls \ {p}
            /\ backendStats' = Fetched(p.id)
            /\ backendEvents' = Fetched(p.id)
            /\ backendDistribution' = Fetched(p.id)
            /\ backendTimeline' = Fetched(p.id)
            /\ statsError' = [isNull |-> TRUE]
            /\ hasFetchedOnce' = TRUE
       ELSE /\ polls' = (polls \ {p}) \cup {[p EXCEPT !.pending = p.pending \ {k}]}
            /\ UNCHANGED <<hasFetchedOnce, backendStats, backendEvents, backendDistribution,
                           backendTimeline, statsError>>
    /\ UNCHANGED pollCount
    /\ UNCHANGED <<chatVars, callVars, fetchVars, govVars>>

\* call k of poll p rejects: Promise.all rejects and the catch block runs
PollRejected(p, k) ==
    /\ p \in polls
    /\ k \in p.pending
    /\ polls' = polls \ {p}
    /\ statsError' = [isNull |-> FALSE, message |-> Msg_AnalyticsUnavailable]
    /\ hasFetchedOnce' = TRUE
    /\ UNCHANGED <<backendStats, backendEvents, backendDistribution, backendTimeline,
                   pollCount>>
    /\ UNCHANGED <<chatVars, callVars, fetchVars, govVars>>

WarNext ==
    \/ fetchAll
    \/ \E p \in polls, k \in AnalyticsCalls : PollCallResolved(p, k)
    \/ \E p \in polls, k \in AnalyticsCalls : PollRejected(p, k)

(***************************************************************************)
(* Specifications.                                                         *)
(***************************************************************************)
Init == ChatInit /\ CallIdle /\ PanelInit

Next == ChatNext /\ UNCHANGED <<callVars, panelVars>>

\* ShieldChat
Spec == Init /\ [][Next]_vars

\* the reconciler on generated and worked inputs, its result rendered
SpecReconcile == ReconcileInit /\ [][Reconcile \/ Render]_vars

\* the local detector on generated texts, its result rendered
SpecDetect == DetectInit /\ [][Detect \/ Render]_vars

\* the segmenter on arbitrary match lists
SpecRender == RenderInit /\ [][Render]_vars

\* the reconciler run one loop iteration at a time
ScanNext == ScanCall \/ ScanStep \/ TagStep \/ SortStep \/ Render

SpecScan == Init /\ [][ScanNext]_vars

\* the call runs to completion unless it loops: its code is synchronous,
\* every step that can be taken is taken
FairSpecScan == SpecScan /\ WF_vars(ScanNext)

\* the reconciler called again on the arguments of a call that returned
SpecRepeat == Init /\ [][ScanNext \/ ScanAgain]_vars

\* the analytics polls of WarRoom
SpecWarRoom == Init /\ [][WarNext]_vars

\* the Governance panel
SpecGovernance == Init /\ [][GovNext]_vars

\* one call of apiFetch
SpecFetch == Init /\ [][FetchNext]_vars

\* the two label functions of the reconciler on generated and worked inputs
SpecClassify == ClassifyInit /\ [][Normalize \/ Infer]_vars

\* every fallback timer that was set
PossibleTimers == [sub : 1..MaxSubmissions, input : AllInputs]

\* ShieldChat with the browser's guarantee that a timer that was set fires
FairSpec ==
    Spec /\ \A t \in PossibleTimers : WF_vars(FallbackTimeout(t) /\ UNCHANGED <<callVars, panelVars>>)

(***************************************************************************)
(* Properties.                                                             *)
(***************************************************************************)
\* sorted by start, and each match ends where the next starts or before
SortedDisjoint(ms) ==
    \A i \in 1..(Len(ms) - 1) : ms[i].start <= ms[i + 1].start /\ ms[i].end <= ms[i + 1].start

\* C1: every match list ShieldChat hands to RedactedText (which is rendered
\* when isScanning is false) is sorted by start and pairwise non-overlapping.
C1_RenderedMatchesDisjoint == ~isScanning => SortedDisjoint(currentMatches)

\* a step in which the audit call a, or the chat call c, completes
AuditCompletes(a) == a \in pendingAudit /\ pendingAudit' = pendingAudit \ {a}
ChatCompletes(c) == c \in pendingChat /\ pendingChat' = pendingChat \ {c}

\* C2: the audit or chat result of a submission that is no longer the latest
\* one (a newer submission has begun) changes none of auditStatus,
\* auditResult, aiResponse, aiError, isLoadingAI.
C2_StaleResultsDiscarded ==
    [][(\/ \E a \in pendingAudit : a.sub < subCount /\ AuditCompletes(a)
        \/ \E c \in pendingChat : c.sub < subCount /\ ChatCompletes(c))
       => UNCHANGED <<auditStatus, auditResult, aiResponse, aiError, isLoadingAI>>]_vars

\* C3: the text of every chatProxy call is the sanitized text that the
\* detection response of its submission returned (set in the same step).
C3_ForwardsSanitizedText ==
    [][\A c \in pendingChat' \ pendingChat : c.text = sanitizedText']_vars

\* C4: the completion of an audit call, with any outcome, writes auditStatus
\* and auditResult only: input, sanitizedText, currentMatches, history and
\* every other state of the component stay as they are.
C4_AuditWritesOnlyAudit ==
    [][(\E a \in pendingAudit : AuditCompletes(a))
       => UNCHANGED <<input, sanitizedText, currentMatches, history, isScanning, apiError,
                      aiResponse, isLoadingAI, aiError>>]_vars

\* C4 witness: an audit has failed and the sanitized output, its matches and
\* the history entry are still there.
C4_Witness ==
    /\ auditStatus \in {"failed", "rate_limited"}
    /\ sanitizedText # <<>>
    /\ currentMatches # <<>>
    /\ Len(history) > 0

\* the history entries of submission n
EntriesOf(n) == {i \in DOMAIN history : history[i].id = n}

\* no audit call and no chat call of submission n is in flight
NoCallsOf(n) ==
    /\ \A a \in pendingAudit : a.sub # n
    /\ \A c \in pendingChat : c.sub # n

\* the state the fallback of the failed submission t completes in
FallbackCompleted(t) ==
    /\ t \notin pendingTimer
    /\ ~isScanning
    /\ currentMatches = FallbackMatches[t.input]
    /\ sanitizedText = t.input
    /\ auditStatus = "idle"
    /\ Cardinality(EntriesOf(t.sub)) = 1
    /\ NoCallsOf(t.sub)

\* C5: when the remote detection of a submission fails, then (a) while its
\* fallback timer is pending no audit or chat call of it is in flight and it
\* has no history entry, (b) the step that fires the timer adds exactly one
\* history entry and issues no call, and (c) the timer does fire: eventually
\* isScanning is false with currentMatches = detectPII(submitted input),
\* sanitizedText = submitted input and auditStatus idle.
C5_FallbackCompletes ==
    /\ [](\A t \in pendingTimer : NoCallsOf(t.sub) /\ EntriesOf(t.sub) = {})
    /\ [][\A t \in pendingTimer :
            pendingTimer' = pendingTimer \ {t}
            => /\ Len(history') = Len(history) + 1
               /\ history'[1].id = t.sub /\ history'[1].input = t.input
               /\ SubSeq(history', 2, Len(history')) = history
               /\ UNCHANGED <<pendingAudit, pendingChat, pendingSanitize>>]_vars
    /\ \A t \in PossibleTimers : (t \in pendingTimer) ~> FallbackCompleted(t)

\* C5 witness: a fallback has completed on an input the local detector
\* finds matches in.
C5_Witness ==
    /\ apiError # Null
    /\ ~isScanning
    /\ Len(history) > 0
    /\ sanitizedText = history[1].input
    /\ currentMatches = detectPII(sanitizedText)
    /\ currentMatches # <<>>
    /\ pendingAudit = {} /\ pendingChat = {}
    /\ auditStatus = "idle"

\* C6: a failed audit sets rate_limited exactly for the rate-limited outcome
\* (HTTP 429) and failed for every other kind of failure.
C6_RateLimitDistinguished ==
    [][\A a \in pendingAudit, outcome \in FailureOutcomes :
          AuditRejected(a, outcome)
          => auditStatus' = (IF outcome.kind = "http" /\ outcome.status = 429
                             THEN "rate_limited" ELSE "failed")]_vars

\* C7: every match the reconciler returns has 0 <= start < end.
C7_MatchesNonEmpty ==
    callPc \in {"render", "done"}
    => \A i \in DOMAIN callMatches : 0 <= callMatches[i].start
                                    /\ callMatches[i].start < callMatches[i].end

\* C8: the list the reconciler returns is sorted by start ascending and no
\* two of its matches, adjacent or not, have the same (start, end).
C8_SortedAndDeduplicated ==
    callPc \in {"render", "done"}
    => /\ \A i \in 1..(Len(callMatches) - 1) : callMatches[i].start <= callMatches[i + 1].start
       /\ \A i, j \in DOMAIN callMatches :
             i # j => <<callMatches[i].start, callMatches[i].end>>
                      # <<callMatches[j].start, callMatches[j].end>>

\* C8 witness: a returned list of several matches for a map in which two
\* originals share one token that occurs in the text.
C8_Witness ==
    /\ callPc = "done"
    /\ Len(callMatches) >= 2
    /\ \E i, j \in DOMAIN callMap.entries :
          /\ i < j
          /\ callMap.entries[i][2] = callMap.entries[j][2]
          /\ IndexOf(callText, callMap.entries[i][2], 0) # -1
          /\ Len(callMap.entries[i][2]) > 0

\* the index of the map pair a match was emitted for (originals are distinct)
PairOf(m) == CHOOSE e \in DOMAIN callMap.entries : callMap.entries[e][1] = m.original

\* C9: in Mode A, when the non-empty token of a later pair is a shorter
\* substring of the token of an earlier pair, no match of the later pair lies
\* inside the range of a match of the earlier pair.
C9_NestedTokenSkipped ==
    (callPc \in {"render", "done"} /\ UseMap(callMap))
    => \A i, j \in DOMAIN callMatches :
          ~ /\ PairOf(callMatches[i]) < PairOf(callMatches[j])
            /\ 0 < Len(callMatches[j].replacement)
            /\ Len(callMatches[j].replacement) < Len(callMatches[i].replacement)
            /\ Includes(callMatches[i].replacement, callMatches[j].replacement)
            /\ callMatches[i].start <= callMatches[j].start
            /\ callMatches[j].end <= callMatches[i].end

\* the precondition of the segmenter: matches within the text, sorted by
\* start and pairwise non-overlapping
WellFormedMatches(text, ms) ==
    /\ \A i \in DOMAIN ms : 0 <= ms[i].start /\ ms[i].start < ms[i].end /\ ms[i].end <= Len(text)
    /\ SortedDisjoint(ms)

\* the parts of one kind, in order
PartsOfKind(ps, kind) == SelectSeq(ps, LAMBDA part : part.kind = kind)

\* the characters of the text a part stands for
Covered(text, part) == Slice(text, part.from, part.to)

\* C10: for matches that satisfy the precondition the parts tile the text:
\* the first starts at 0, each starts where its predecessor ends, the last
\* ends at text.length, none is empty; the redacted parts are the matches in
\* order, each showing its replacement; the plain parts show exactly the
\* characters between them.
C10_PartsTileText ==
    (callPc = "done" /\ WellFormedMatches(callText, callMatches))
    => /\ callText # <<>> => callParts # <<>> /\ callParts[1].from = 0
                             /\ callParts[Len(callParts)].to = Len(callText)
       /\ \A k \in DOMAIN callParts : callParts[k].from < callParts[k].to
       /\ \A k \in 1..(Len(callParts) - 1) : callParts[k + 1].from = callParts[k].to
       /\ PartsOfKind(callParts, "redacted")
            = [i \in DOMAIN callMatches |->
                 [kind |-> "redacted", text |-> callMatches[i].replacement,
                  from |-> callMatches[i].start, to |-> callMatches[i].end]]
       /\ \A k \in DOMAIN callParts :
             callParts[k].kind = "plain" => callParts[k].text = Covered(callText, callParts[k])
       /\ Concat([k \in DOMAIN callParts |-> Covered(callText, callParts[k])]) = callText

\* C10 witness: two matches with plain text before the first and between
\* them: four parts.
C10_Witness ==
    /\ callPc = "done"
    /\ WellFormedMatches(callText, callMatches)
    /\ Len(callMatches) = 2
    /\ Len(callParts) = 4
    /\ callParts[1].kind = "plain" /\ callParts[3].kind = "plain"

\* the matches of a list that carry one pattern's type, in list order
OfPattern(ms, pattern) == SelectSeq(ms, LAMBDA m : m.type = pattern.type)

\* the offsets at which an expression matches the text
MatchStarts(pattern, text) ==
    {q \in 0..Len(text) : MatchAlts(pattern.regex, 1, text, q) # -1}

\* C11: the list detectPII returns is sorted by start ascending and, for each
\* pattern of the catalog, holds exactly the matches a left-to-right scan of
\* the whole text finds: every span of the pattern's type is a match of its
\* expression carrying the matched characters and the pattern's replacement,
\* the spans of one pattern follow each other without overlap, and every
\* offset the expression matches at is the start of one of them or lies
\* inside one of them; spans of different patterns may overlap.
C11_DetectorSortedAndComplete ==
    callPc \in {"render", "done"}
    => /\ \A i \in 1..(Len(callMatches) - 1) : callMatches[i].start <= callMatches[i + 1].start
       /\ \A i \in DOMAIN callMatches :
             \E p \in DOMAIN PII_PATTERNS : callMatches[i].type = PII_PATTERNS[p].type
       /\ \A p \in DOMAIN PII_PATTERNS :
             LET pattern == PII_PATTERNS[p]
                 ms == OfPattern(callMatches, pattern)
             IN  /\ \A k \in DOMAIN ms :
                       /\ MatchAlts(pattern.regex, 1, callText, ms[k].start) = ms[k].end
                       /\ ms[k].original = Slice(callText, ms[k].start, ms[k].end)
                       /\ ms[k].replacement = pattern.replacement
                 /\ \A k \in 1..(Len(ms) - 1) : ms[k].end <= ms[k + 1].start
                 /\ \A q \in MatchStarts(pattern, callText) :
                       \E k \in DOMAIN ms : ms[k].start <= q /\ q < ms[k].end

\* C11 witness: detectPII has returned two matches of one pattern.
C11_Witness ==
    /\ callPc = "done"
    /\ \E i, j \in DOMAIN callMatches : i < j /\ callMatches[i].type = callMatches[j].type

\* the detection passes in flight: sanitizeText calls awaiting their response
\* and fallback timers not fired yet
DetectionsInFlight == Cardinality(pendingSanitize) + Cardinality(pendingTimer)

\* C12: at most one detection pass (a pending sanitizeText call or a pending
\* fallback timer) is in flight at any time, one is in flight only while
\* isScanning is true, and no step (button click, input edit, sample click,
\* Clear, demo-mode toggle, demo timer) issues a sanitizeText call from a
\* state in which isScanning is true.
C12_OneDetectionAtATime ==
    /\ [](DetectionsInFlight <= 1 /\ (DetectionsInFlight = 1 => isScanning))
    /\ [][pendingSanitize' \ pendingSanitize # {} => ~isScanning]_vars

\* C12 witness: a detection pass is in flight while a demo-mode timer is
\* pending, demo mode is on and the input is not blank, so that the button,
\* the toggle and the timer all have their say.
C12_Witness ==
    /\ DetectionsInFlight = 1
    /\ isScanning
    /\ isDemoMode
    /\ pendingDemo # <<>>
    /\ TrimNonEmpty(input)

\* the step in which the sanitizeText call p resolves: it leaves
\* pendingSanitize and no fallback timer takes its place
DetectionSucceeds(p) ==
    /\ p \in pendingSanitize
    /\ p \notin pendingSanitize'
    /\ p \notin pendingTimer'

\* the step in which an audit call or a chat call completes
BranchCompletes == pendingAudit' \subseteq pendingAudit /\ pendingChat' \subseteq pendingChat
                   /\ <<pendingAudit', pendingChat'>> # <<pendingAudit, pendingChat>>

\* C13: the step in which remote detection succeeds sets sanitizedText and
\* currentMatches to the response's text and matches and clears isScanning,
\* while the audit call and the chat call of the submission are still in
\* flight (auditStatus running, isLoadingAI true); and no completion of an
\* audit or chat call is needed for, or changes, what is displayed.
C13_ResultShownBeforeBranches ==
    /\ [][\A p \in pendingSanitize :
            DetectionSucceeds(p)
            => /\ ~isScanning'
               /\ \E r \in Responses : /\ sanitizedText' = r.clean_text
                                       /\ currentMatches' = ResponseMatches[p.input, r]
               /\ auditStatus' = "running"
               /\ isLoadingAI'
               /\ \E a \in pendingAudit' \ pendingAudit : a.sub = p.sub
               /\ \E c \in pendingChat' \ pendingChat : c.sub = p.sub]_vars
    /\ [][BranchCompletes => UNCHANGED <<sanitizedText, currentMatches, isScanning>>]_vars

\* C13 witness: the sanitized output is displayed while the audit call and
\* the chat call of the submission are still in flight.
C13_Witness ==
    /\ ~isScanning
    /\ sanitizedText # <<>>
    /\ currentMatches # <<>>
    /\ auditStatus = "running"
    /\ isLoadingAI
    /\ \E a \in pendingAudit, c \in pendingChat : a.sub = subCount /\ c.sub = subCount

\* the submissions that have an audit call, a chat call, in flight
AuditSubs == {a.sub : a \in pendingAudit}
ChatSubs == {c.sub : c \in pendingChat}

\* C14: the audit call and the chat call of a submission are issued in one
\* step; whenever one of them is in flight it can complete, with success or
\* with failure, whether or not the other is still in flight; the step that
\* completes an audit call leaves aiResponse, aiError, isLoadingAI and the
\* chat calls alone, and the step that completes a chat call leaves
\* auditStatus, auditResult and the audit calls alone.
C14_AuditAndChatIndependent ==
    /\ [][AuditSubs' \ AuditSubs = ChatSubs' \ ChatSubs]_vars
    /\ [](\A a \in pendingAudit :
            /\ ENABLED (\E audit \in AuditResults : AuditResolved(a, audit))
            /\ ENABLED (\E outcome \in FailureOutcomes : AuditRejected(a, outcome)))
    /\ [](\A c \in pendingChat :
            /\ ENABLED (\E reply \in ChatReplies : ChatResolved(c, reply))
            /\ ENABLED (\E outcome \in TransportFailures : ChatRejected(c, outcome)))
    /\ [][\A a \in pendingAudit :
            AuditCompletes(a) => UNCHANGED <<aiResponse, aiError, isLoadingAI, pendingChat>>]_vars
    /\ [][\A c \in pendingChat :
            ChatCompletes(c) => UNCHANGED <<auditStatus, auditResult, pendingAudit>>]_vars

\* C14 witness: the chat call of the latest submission has failed while its
\* audit call is still in flight, and the audit state is untouched.
C14_Witness ==
    /\ aiError # Null
    /\ ~isLoadingAI
    /\ auditStatus = "running"
    /\ auditResult = Null
    /\ subCount \in AuditSubs
    /\ subCount \notin ChatSubs

\* no token of the map occurs in the text
NoTokenOccurs(text, map) ==
    \A e \in DOMAIN map.entries : ~\E k \in 0..Len(text) : OccursAt(text, map.entries[e][2], k)

\* text[from, to) is a tag: "<", one or more of A-Z and _, ">"
IsTagAt(text, from, to) ==
    /\ to - from >= 3
    /\ text[from + 1] = "<"
    /\ text[to] = ">"
    /\ \A k \in (from + 2)..(to - 1) : text[k] \in Upper \cup {"_"}

\* the text holds no tag
NoTag(text) == ~\E from \in 0..Len(text), to \in 0..Len(text) : IsTagAt(text, from, to)

\* C15: every call of convertBackendResponseToMatches, run one loop
\* iteration at a time, reaches its return (and its result is rendered),
\* for every text and map including empty and self-overlapping tokens; the
\* list it returns is the one the function is defined to return; it is
\* empty when, in Mode A, no token of the map occurs in the text and when,
\* in Mode B, the text holds no tag.
C15_ReconcilerTerminates ==
    /\ <>(callPc = "done")
    /\ [](callPc \in {"render", "done"}
          => /\ callMatches = convertBackendResponseToMatches(<<>>, callText, <<>>, callMap)
             /\ (UseMap(callMap) /\ NoTokenOccurs(callText, callMap)) => callMatches = <<>>
             /\ (~UseMap(callMap) /\ NoTag(callText)) => callMatches = <<>>)

\* C15 witness: a call has returned whose scan met a claimed range and
\* retried one character further: the empty token on a text of two or more
\* characters.
C15_Witness ==
    /\ callPc = "done"
    /\ UseMap(callMap)
    /\ Len(callText) >= 2
    /\ \E e \in DOMAIN callMap.entries : callMap.entries[e][2] = <<>>
    /\ Len(callMatches) >= 2

\* the map of the call is present and has at least one key
MapGiven == callMap.present /\ callMap.entries # <<>>

\* the tokens of the map of the call
MapTokens == {callMap.entries[e][2] : e \in DOMAIN callMap.entries}

\* the ranges of the text that are tags
TagRanges(text) ==
    {r \in (0..Len(text)) \X (0..Len(text)) : IsTagAt(text, r[1], r[2])}

\* C16: with a map that is present and non-empty every returned match is an
\* occurrence of a token of the map, emitted for a pair of the map (Mode A),
\* and a tag of the text that is not a token of the map has no match; with
\* the map absent or empty every returned match is a tag of the text, with
\* the bracketed label as its original, and a text that holds a tag gets a
\* match (Mode B).
C16_ModesExclusive ==
    callPc \in {"render", "done"}
    => IF MapGiven
       THEN /\ \A i \in DOMAIN callMatches :
                  /\ \E e \in DOMAIN callMap.entries :
                        callMap.entries[e] = <<callMatches[i].original, callMatches[i].replacement>>
                  /\ Slice(callText, callMatches[i].start, callMatches[i].end)
                        = callMatches[i].replacement
            /\ \A r \in TagRanges(callText) :
                  Slice(callText, r[1], r[2]) \notin MapTokens
                  => ~\E i \in DOMAIN callMatches :
                        callMatches[i].start = r[1] /\ callMatches[i].end = r[2]
       ELSE /\ \A i \in DOMAIN callMatches :
                  /\ IsTagAt(callText, callMatches[i].start, callMatches[i].end)
                  /\ callMatches[i].original
                        = <<"[">> \o Slice(callText, callMatches[i].start + 1,
                                           callMatches[i].end - 1) \o <<"]">>
            /\ TagRanges(callText) # {} => callMatches # <<>>

\* C16 witness: a call with a non-empty map has returned matches for a text
\* that also holds a tag that is not a token of the map.
C16_Witness ==
    /\ callPc = "done"
    /\ MapGiven
    /\ callMatches # <<>>
    /\ \E r \in TagRanges(callText) : Slice(callText, r[1], r[2]) \notin MapTokens

\* the offsets k at which token splits as a label of A-Z and _, a space, and
\* digits: token has the numbered shape when there is one
NumberedAt(token) ==
    {k \in 2..(Len(token) - 1) :
        /\ token[k] = " "
        /\ \A j \in 1..(k - 1) : token[j] \in Upper \cup {"_"}
        /\ \A j \in (k + 1)..Len(token) : token[j] \in Digit}

\* the type the three cases give a pair
ExpectedType(original, token) ==
    IF IsTagAt(token, 0, Len(token))
    THEN normalizeEntityType(SubSeq(token, 2, Len(token) - 1))
    ELSE IF NumberedAt(token) # {}
    THEN normalizeEntityType(SubSeq(token, 1, Least(NumberedAt(token)) - 1))
    ELSE inferEntityType(original)

\* C17: in Mode A the type of every returned match is the normalized inner
\* label when its token is a tag, the normalized leading word when its
\* token has the numbered shape, and the type inferred from its original
\* value otherwise, wherever in the text the token occurs.
C17_ModeATypes ==
    (callPc \in {"render", "done"} /\ MapGiven)
    => \A i \in DOMAIN callMatches :
          callMatches[i].type = ExpectedType(callMatches[i].original, callMatches[i].replacement)

\* C17 witness: one call has returned a match of each of the three cases,
\* the inferred type being other than the default.
C17_Witness ==
    /\ callPc = "done"
    /\ MapGiven
    /\ \E i, j, k \in DOMAIN callMatches :
          /\ IsTagAt(callMatches[i].replacement, 0, Len(callMatches[i].replacement))
          /\ NumberedAt(callMatches[j].replacement) # {}
          /\ ~IsTagAt(callMatches[k].replacement, 0, Len(callMatches[k].replacement))
          /\ NumberedAt(callMatches[k].replacement) = {}
          /\ callMatches[k].type = Str_EMAIL
          /\ callMatches[i].type = Str_SSN
          /\ callMatches[j].type = Str_PHONE

\* the text and the map of the worked example of Mode A
Str_Contact ==
    <<"C", "o", "n", "t", "a", "c", "t", " ", "<", "P", "E", "R", "S", "O", "N", ">",
      " ", "n", "o", "w">>
Str_JohnDoe == <<"J", "o", "h", "n", " ", "D", "o", "e">>
Str_PersonTag == <<"<", "P", "E", "R", "S", "O", "N", ">">>

\* the matches of the call that stand for the pair <<original, token>>
SpansOf(original, token) ==
    {i \in DOMAIN callMatches :
        callMatches[i].original = original /\ callMatches[i].replacement = token}

\* C18: in Mode A every returned match carries a pair of the map, starts at
\* an occurrence of the pair's token and ends a token length later, no two
\* matches share a range, and every occurrence of a pair's token that begins
\* inside the text either has a match on its range or begins inside a match
\* of the same pair that starts before it, so that a token occurring
\* several times gets one match per occurrence; the map {"John Doe":
\* "<PERSON>"} on "Contact <PERSON> now" gives exactly the one match PERSON,
\* "John Doe", "<PERSON>", 8, 16.
C18_ModeASpanPerOccurrence ==
    (callPc \in {"render", "done"} /\ MapGiven)
    => /\ \A i \in DOMAIN callMatches :
             /\ \E e \in DOMAIN callMap.entries :
                   callMap.entries[e] = <<callMatches[i].original, callMatches[i].replacement>>
             /\ callMatches[i].start \in 0..(Len(callText) - 1)
             /\ OccursAt(callText, callMatches[i].replacement, callMatches[i].start)
             /\ callMatches[i].end = callMatches[i].start + Len(callMatches[i].replacement)
       /\ \A i, j \in DOMAIN callMatches :
             (callMatches[i].start = callMatches[j].start
              /\ callMatches[i].end = callMatches[j].end) => i = j
       /\ \A e \in DOMAIN callMap.entries : \A p \in 0..(Len(callText) - 1) :
             OccursAt(callText, callMap.entries[e][2], p)
             => \/ \E i \in DOMAIN callMatches :
                      /\ callMatches[i].start = p
                      /\ callMatches[i].end = p + Len(callMap.entries[e][2])
                \/ \E i \in SpansOf(callMap.entries[e][1], callMap.entries[e][2]) :
                      callMatches[i].start < p /\ p < callMatches[i].end
       /\ (callText = Str_Contact /\ callMap = MapOf(<< <<Str_JohnDoe, Str_PersonTag>> >>))
          => callMatches = << [type |-> Str_PERSON, original |-> Str_JohnDoe,
                               replacement |-> Str_PersonTag, start |-> 8, end |-> 16] >>

\* C18 witness: a call has returned two matches for one pair of a map in
\* which a second pair has the same token.
C18_Witness ==
    /\ callPc = "done"
    /\ MapGiven
    /\ \E e, f \in DOMAIN callMap.entries :
          /\ e # f
          /\ callMap.entries[e][2] = callMap.entries[f][2]
          /\ Cardinality(SpansOf(callMap.entries[e][1], callMap.entries[e][2])) >= 2

\* the text of the worked example of Mode B
Str_EmailSentPhone ==
    <<"<", "E", "M", "A", "I", "L", ">", " ", "s", "e", "n", "t", " ", "<", "P", "H",
      "O", "N", "E", "_", "N", "U", "M", "B", "E", "R", ">">>

\* C19: with the map absent or empty the returned matches are the tags of
\* the text, one match per tag and in increasing order of start, each with
\* the normalized label of its tag as type and the text of the tag as
\* replacement; "<EMAIL> sent <PHONE_NUMBER>" gives two matches, EMAIL and
\* then PHONE.
C19_ModeBSpanPerTag ==
    (callPc \in {"render", "done"} /\ ~MapGiven)
    => /\ {<<callMatches[i].start, callMatches[i].end>> : i \in DOMAIN callMatches}
            = TagRanges(callText)
       /\ Len(callMatches) = Cardinality(TagRanges(callText))
       /\ \A i, j \in DOMAIN callMatches :
             i < j => callMatches[i].end <= callMatches[j].start
       /\ \A i \in DOMAIN callMatches :
             /\ callMatches[i].type
                   = normalizeEntityType(SubSeq(callText, callMatches[i].start + 2,
                                                callMatches[i].end - 1))
             /\ callMatches[i].replacement
                   = SubSeq(callText, callMatches[i].start + 1, callMatches[i].end)
       /\ callText = Str_EmailSentPhone
          => /\ Len(callMatches) = 2
             /\ callMatches[1].type = Str_EMAIL /\ callMatches[1].start = 0
             /\ callMatches[2].type = Str_PHONE /\ callMatches[2].start = 13

\* C19 witness: a call without a map has returned the matches of two tags,
\* the label of the second one changed by the normalization.
C19_Witness ==
    /\ callPc = "done"
    /\ ~callMap.present
    /\ Len(callMatches) = 2
    /\ callMatches[1].type = Str_EMAIL
    /\ callMatches[2].type = Str_PHONE
    /\ callMatches[2].replacement = <<"<">> \o Str_PHONE_NUMBER \o <<">">>

\* C20: a call of the reconciler returns what every earlier call on the
\* same text and map returned, and a call starts with no match, no claimed
\* range and its cursor at the first pair and at offset 0, whatever the
\* call before left.
C20_SameInputsSameResult ==
    /\ [](callPc \in {"render", "done"}
           => \A k \in DOMAIN callReturned : callReturned[k] = callMatches)
    /\ [][(callPc = "done" /\ callPc' = "scan")
           => (callMatches' = <<>> /\ scanClaimed' = {}
               /\ scanEntry' = 1 /\ scanIndex' = 0
               /\ callText' = callText /\ callMap' = callMap)]_vars

\* C20 witness: the second call on a text and a non-empty map has returned,
\* the first call having claimed two ranges.
C20_Witness ==
    /\ callPc = "done"
    /\ MapGiven
    /\ Len(callReturned) = 1
    /\ Len(callReturned[1]) >= 2
    /\ Cardinality(scanClaimed) >= 2

\* text with the first occurrence of pat, if there is one, replaced by `by`
FirstReplaced(text, pat, by) ==
    IF \A i \in 0..Len(text) : ~OccursAt(text, pat, i) THEN text
    ELSE LET i == CHOOSE i \in 0..Len(text) :
                      /\ OccursAt(text, pat, i)
                      /\ \A j \in 0..(i - 1) : ~OccursAt(text, pat, j)
         IN  SubSeq(text, 1, i) \o by \o SubSeq(text, i + Len(pat) + 1, Len(text))

\* the rewrites of the normalizer, in their order
NormalizeRules ==
    << <<Str_EMAIL_ADDRESS, Str_EMAIL>>, <<Str_PHONE_NUMBER, Str_PHONE>>,
       <<Str_US_SSN, Str_SSN>>, <<Str_IP_ADDRESS, Str_IP>>,
       <<Str__ADDRESS, <<>>>>, <<Str__NUMBER, <<>>>>, <<Str_US_, <<>>>> >>

\* text after the rules k, k + 1, ... have been applied one after the other
RECURSIVE Rewritten(_, _)
Rewritten(text, k) ==
    IF k > Len(NormalizeRules) THEN text
    ELSE Rewritten(FirstReplaced(text, NormalizeRules[k][1], NormalizeRules[k][2]), k + 1)

Str_UNKNOWN_TAG == <<"U", "N", "K", "N", "O", "W", "N", "_", "T", "A", "G">>

\* C21: normalizeEntityType returns a label for every label: the label
\* with the seven rewrites applied in their order, each to the first
\* occurrence of its pattern; a label that holds none of the patterns is
\* returned unchanged; US_SSN gives SSN, IP_ADDRESS gives IP and UNKNOWN_TAG
\* gives UNKNOWN_TAG.
C21_NormalizerRewrites ==
    callPc = "normalized"
    => /\ callLabel = Rewritten(callText, 1)
       /\ (\A k \in DOMAIN NormalizeRules : \A i \in 0..Len(callText) :
               ~OccursAt(callText, NormalizeRules[k][1], i))
          => callLabel = callText
       /\ callText = Str_US_SSN => callLabel = Str_SSN
       /\ callText = Str_IP_ADDRESS => callLabel = Str_IP
       /\ callText = Str_UNKNOWN_TAG => callLabel = Str_UNKNOWN_TAG

\* C21 witness: the normalizer has returned EMAIL for _ADDRESSEMAIL_ADDRESS,
\* a label on which the order of the rewrites shows.
C21_Witness ==
    /\ callPc = "normalized"
    /\ callText = Str__ADDRESS \o Str_EMAIL_ADDRESS
    /\ callLabel = Str_EMAIL

\* the characters from..to of v all belong to S
AllIn(v, from, to, S) == \A k \in from..to : v[k] \in S

\* 3 digits, 2 digits, 4 digits, a dash allowed between the groups
IsSSNValue(v) ==
    \E a, b \in {0, 1} :
        /\ Len(v) = 9 + a + b
        /\ AllIn(v, 1, 3, Digit)
        /\ a = 1 => v[4] = "-"
        /\ AllIn(v, 4 + a, 5 + a, Digit)
        /\ b = 1 => v[6 + a] = "-"
        /\ AllIn(v, 6 + a + b, 9 + a + b, Digit)

\* four groups of 4 digits, a dash or a blank allowed between the groups
IsCardValue(v) ==
    \E a, b, c \in {0, 1} :
        /\ Len(v) = 16 + a + b + c
        /\ AllIn(v, 1, 4, Digit)
        /\ a = 1 => v[5] \in {"-", " ", "\t", "\n"}
        /\ AllIn(v, 5 + a, 8 + a, Digit)
        /\ b = 1 => v[9 + a] \in {"-", " ", "\t", "\n"}
        /\ AllIn(v, 9 + a + b, 12 + a + b, Digit)
        /\ c = 1 => v[13 + a + b] \in {"-", " ", "\t", "\n"}
        /\ AllIn(v, 13 + a + b + c, 16 + a + b + c, Digit)

\* an optional +, then ten or more digits, blanks, dashes and parentheses
IsPhoneValue(v) ==
    \E p \in {0, 1} :
        /\ p = 1 => (Len(v) >= 1 /\ v[1] = "+")
        /\ Len(v) - p >= 10
        /\ AllIn(v, p + 1, Len(v), Digit \cup {" ", "\t", "\n", "-", "(", ")"})

\* begins with sk-, ghp_ or AKIA
IsKeyValue(v) ==
    \/ Len(v) >= 3 /\ SubSeq(v, 1, 3) = <<"s", "k", "-">>
    \/ Len(v) >= 4 /\ SubSeq(v, 1, 4) = <<"g", "h", "p", "_">>
    \/ Len(v) >= 4 /\ SubSeq(v, 1, 4) = <<"A", "K", "I", "A">>

\* four groups of 1 to 3 digits with a dot between them
IsIPValue(v) ==
    \E a, b, c, d \in 1..3 :
        /\ Len(v) = a + b + c + d + 3
        /\ AllIn(v, 1, a, Digit) /\ v[a + 1] = "."
        /\ AllIn(v, a + 2, a + b + 1, Digit) /\ v[a + b + 2] = "."
        /\ AllIn(v, a + b + 3, a + b + c + 2, Digit) /\ v[a + b + c + 3] = "."
        /\ AllIn(v, a + b + c + 4, a + b + c + d + 3, Digit)

\* the label of the first shape v has, in the order of the classifier
FirstShapeLabel(v) ==
    IF \E k \in DOMAIN v : v[k] = "@" THEN Str_EMAIL
    ELSE IF IsSSNValue(v) THEN Str_SSN
    ELSE IF IsCardValue(v) THEN Str_CREDIT_CARD
    ELSE IF IsPhoneValue(v) THEN Str_PHONE
    ELSE IF IsKeyValue(v) THEN Str_API_KEY
    ELSE IF IsIPValue(v) THEN Str_IP
    ELSE Str_PERSON

\* C22: inferEntityType returns the label of the first shape its value
\* has, in the order EMAIL, SSN, CREDIT_CARD, PHONE, API_KEY, IP, and PERSON
\* when it has none: a value of the card shape that holds no @ is
\* CREDIT_CARD though it has the phone shape too; 192.168.1.1 is IP,
\* jane@x.com is EMAIL and Jane Smith is PERSON.
C22_ClassifierFirstShapeWins ==
    callPc = "inferred"
    => /\ callLabel = FirstShapeLabel(callText)
       /\ (IsCardValue(callText) /\ IsPhoneValue(callText)) => callLabel = Str_CREDIT_CARD
       /\ callText = <<"1", "9", "2", ".", "1", "6", "8", ".", "1", ".", "1">>
          => callLabel = Str_IP
       /\ callText = <<"j", "a", "n", "e", "@", "x", ".", "c", "o", "m">>
          => callLabel = Str_EMAIL
       /\ callText = <<"J", "a", "n", "e", " ", "S", "m", "i", "t", "h">>
          => callLabel = Str_PERSON

\* C22 witness: the classifier has returned CREDIT_CARD for a value that has
\* both the card shape and the phone shape.
C22_Witness ==
    /\ callPc = "inferred"
    /\ IsCardValue(callText)
    /\ IsPhoneValue(callText)
    /\ callLabel = Str_CREDIT_CARD

Str_CardText ==
    <<"c", "a", "r", "d", " ", "4", "5", "3", "2", "-", "1", "2", "3", "4", "-",
      "5", "6", "7", "8", "-", "9", "0", "1", "2">>

\* C23: detectPII("card 4532-1234-5678-9012") returns exactly one match:
\* CREDIT_CARD, the 19 characters 4532-1234-5678-9012 as original, start 5,
\* end 24, replacement [REDACTED_CC]; no other pattern of the catalog
\* matches anywhere in that text.
C23_CardExample ==
    (callPc \in {"render", "done"} /\ callText = Str_CardText)
    => /\ callMatches
            = << [type |-> Str_CREDIT_CARD,
                  original |-> <<"4", "5", "3", "2", "-", "1", "2", "3", "4", "-",
                                 "5", "6", "7", "8", "-", "9", "0", "1", "2">>,
                  replacement |-> <<"[", "R", "E", "D", "A", "C", "T", "E", "D", "_",
                                    "C", "C", "]">>,
                  start |-> 5,
                  end |-> 24] >>
       /\ Len(callMatches[1].original) = 19
       /\ \A p \in 2..Len(PII_PATTERNS) : \A from \in 0..Len(callText) :
             Exec(PII_PATTERNS[p].regex, callText, from)[1] = -1

\* C23 witness: the detector has returned for the text of the example.
C23_Witness ==
    /\ callPc = "done"
    /\ callText = Str_CardText
    /\ callMatches # <<>>
    /\ callParts # <<>>

\* C24: when the timer of the demo-mode effect fires, a sanitize pass
\* starts on the demo text: isScanning becomes true and a sanitizeText call
\* carrying demoText is issued.
C24_DemoStartsSanitize ==
    [][Len(pendingDemo') < Len(pendingDemo)
       => /\ isScanning'
          /\ \E p \in pendingSanitize' \ pendingSanitize : p.input = demoText]_vars

\* C25: from handleClear until the next run of handleSanitize starts,
\* sanitizedText and currentMatches are empty: no response and no fallback
\* timer of a submission started before the Clear fills them again.
C25_ClearedStaysEmpty == cleared => (sanitizedText = <<>> /\ currentMatches = <<>>)

\* the part of sanitizedText a match of currentMatches stands on
ShownUnder(m) == SubSeq(sanitizedText, m.start + 1, m.end)

\* C26: whenever the output panel is shown (isScanning false), every match
\* of currentMatches ends inside sanitizedText, and the matches all stand on
\* their replacement (a remote result) or all stand on their original (a
\* fallback result).
C26_MatchesFitSanitizedText ==
    ~isScanning
    => /\ \A i \in DOMAIN currentMatches :
             /\ 0 <= currentMatches[i].start
             /\ currentMatches[i].start <= currentMatches[i].end
             /\ currentMatches[i].end <= Len(sanitizedText)
       /\ \/ \A i \in DOMAIN currentMatches :
                ShownUnder(currentMatches[i]) = currentMatches[i].replacement
          \/ \A i \in DOMAIN currentMatches :
                ShownUnder(currentMatches[i]) = currentMatches[i].original

\* C26 witness: the output panel shows the fallback result of a second
\* submission, with matches that stand on their original and not on their
\* replacement, while a call of the first submission is still in flight.
C26_Witness ==
    /\ ~isScanning
    /\ subCount = 2
    /\ Len(currentMatches) >= 2
    /\ \A i \in DOMAIN currentMatches :
          /\ ShownUnder(currentMatches[i]) = currentMatches[i].original
          /\ ShownUnder(currentMatches[i]) # currentMatches[i].replacement
    /\ \E a \in pendingAudit \cup pendingChat : a.sub = 1

\* the pairs of the map that have the token of match m
PairsWithTokenOf(m) == {e \in DOMAIN callMap.entries : callMap.entries[e][2] = m.replacement}

\* C27: in Mode A a token that several pairs of the map share has each of
\* its occurrence ranges claimed by the first of those pairs: no two
\* returned matches have the same range, and every returned match carries
\* the original value of the first pair that has its token.
C27_SharedTokenFirstPairWins ==
    (callPc \in {"render", "done"} /\ MapGiven)
    => /\ \A i, j \in DOMAIN callMatches :
             (callMatches[i].start = callMatches[j].start
              /\ callMatches[i].end = callMatches[j].end) => i = j
       /\ \A i \in DOMAIN callMatches : \A e \in PairsWithTokenOf(callMatches[i]) :
             PairOf(callMatches[i]) <= e

\* the positions of fetchLog that are fetches, and those that failed
FetchesAt == {i \in DOMAIN fetchLog : fetchLog[i].kind = "fetch"}
FailedAt == {i \in FetchesAt : fetchLog[i].outcome.kind # "ok"}

\* the fetches issued so far: those completed and the one awaited
Issued == Cardinality(FetchesAt) + (IF fetchPc = "attempt" THEN 1 ELSE 0)

\* C28: one call of apiFetch issues at most retries + 1 fetches; a fetch
\* that succeeds is the last entry of the log and the call returns; after a
\* failed fetch that is not the last one allowed the call waits
\* baseDelayMs * 2^attempt, once, and then issues the next fetch; when the
\* call throws, retries + 1 fetches have failed and the error thrown is the
\* normalized error of the last of them; with retries 0 the call ends after
\* exactly one fetch and no delay.
C28_BoundedRetries ==
    /\ Issued <= fetchRetry.retries + 1
    /\ \A i \in FetchesAt \ FailedAt : i = Len(fetchLog) /\ fetchPc = "returned"
    /\ fetchPc = "returned" => (fetchLog # <<>> /\ Len(fetchLog) \notin FailedAt)
    /\ \A i \in DOMAIN fetchLog :
          fetchLog[i].kind = "delay"
          => /\ i - 1 \in FailedAt
             /\ fetchLog[i - 1].attempt = fetchLog[i].attempt
             /\ fetchLog[i].attempt < fetchRetry.retries
             /\ fetchLog[i].ms = fetchRetry.baseDelayMs * 2^(fetchLog[i].attempt)
             /\ IF i < Len(fetchLog)
                THEN /\ i + 1 \in FetchesAt
                     /\ fetchLog[i + 1].attempt = fetchLog[i].attempt + 1
                ELSE fetchPc \in {"delay", "attempt"}
    /\ \A i \in FailedAt :
          i < Len(fetchLog) => fetchLog[i + 1].kind = "delay"
    /\ fetchPc = "thrown"
       => /\ Cardinality(FailedAt) = fetchRetry.retries + 1
          /\ FetchesAt = FailedAt
          /\ Len(fetchLog) \in FailedAt
          /\ fetchResult = normalizeFetchError(ThrownError(fetchLog[Len(fetchLog)].outcome))
    /\ (fetchRetry = DefaultRetry /\ fetchPc \in {"returned", "thrown"})
       => (Len(fetchLog) = 1 /\ FetchesAt = {1})

\* C28 witness: a call with two retries has thrown after a network failure,
\* an HTTP 503 and an HTTP 429, having waited 250 ms and 500 ms.
C28_Witness ==
    /\ fetchPc = "thrown"
    /\ fetchRetry = [retries |-> 2, baseDelayMs |-> 250]
    /\ Len(fetchLog) = 5
    /\ fetchLog[1].outcome.kind = "network"
    /\ fetchLog[2].ms = 250
    /\ fetchLog[3].outcome.status = 503
    /\ fetchLog[4].ms = 500
    /\ fetchLog[5].outcome.status = 429
    /\ fetchResult = Msg_RateLimit

\* the entity types of the rules enabled in the panel
EntitiesOfEnabledRules ==
    UNION {{RULE_TO_ENTITIES[rules[k].id][e] : e \in DOMAIN RULE_TO_ENTITIES[rules[k].id]}
           : k \in {j \in DOMAIN rules : rules[j].enabled}}

\* C29: config.enabledEntities holds, each once, the entity types of the
\* rules enabled in the Governance panel; PERSON, which the rules medical
\* and names share, is enabled while one of the two is.
C29_ConfigFollowsRules ==
    /\ {config.enabledEntities[k] : k \in DOMAIN config.enabledEntities}
          = EntitiesOfEnabledRules
    /\ \A j, k \in DOMAIN config.enabledEntities :
          config.enabledEntities[j] = config.enabledEntities[k] => j = k
    /\ (\E k \in DOMAIN rules : rules[k].id \in {"medical", "names"} /\ rules[k].enabled)
       => \E k \in DOMAIN config.enabledEntities : config.enabledEntities[k] = "PERSON"

\* the four backend datasets of WarRoom
Datasets == <<backendStats, backendEvents, backendDistribution, backendTimeline>>

\* C30: the four backend datasets are all null or all set, and a dataset
\* that is set is never null again, whatever polls succeed and fail.
C30_DatasetsAllOrNone ==
    /\ []((\A k \in 1..4 : Datasets[k].isNull) \/ (\A k \in 1..4 : ~Datasets[k].isNull))
    /\ [][\A k \in 1..4 : ~Datasets[k].isNull => ~Datasets'[k].isNull]_vars

\* C30 witness: a poll has failed after an earlier poll succeeded: the
\* error is set and the four datasets hold the data of the earlier poll.
C30_Witness ==
    /\ ~statsError.isNull
    /\ polls = {}
    /\ pollCount >= 2
    /\ \A k \in 1..4 : ~Datasets[k].isNull
====

